---- MODULE Spec2Model ----
(***************************************************************************)
(* Grounded detection and verification pipeline of databridge-core         *)
(* (src/src/databridge_core/detection): rule compilation, the SPRT-gated   *)
(* row scan, the numeric outlier scan, the Triage/Verify/Reconcile         *)
(* workflow and the feedback ledger.                                       *)
(*                                                                         *)
(* Numbers.  Confidences are integers in units of 1e-4 (the code rounds    *)
(* them to 4 decimals), log-likelihood ratios are integers in units of     *)
(* 1e-6, numeric cell values are integers in units of 1e-3.                *)
(***************************************************************************)
EXTENDS Integers, Sequences, FiniteSets, TLC

VARIABLES
    \* ---- detect_grounded (src/.../_grounded.py) ----
    pc,             \* position of the run inside the operation being modelled
    rules,          \* List[DetectionRule] given to the run
    headers,        \* CSV headers of the file
    min_confidence, \* caller-supplied confidence floor
    early_exit,     \* detect_grounded(early_exit=...)
    total_rows,     \* len(rows)
    compiled,       \* compiled_rules
    row_idx,        \* index of the next row of the for loop
    raw_findings,   \* raw_findings (the list itself, small files only)
    raw_count,      \* len(raw_findings)
    rows_scanned,   \* rows_scanned
    sprt,           \* the _SPRTState of the scan, NoSPRT when early_exit is off
    monitor_seen,   \* what run_all_monitors was given
    result,         \* filtered_findings returned by the run
    \* ---- feedback store (src/.../_feedback.py) ----
    ledger,         \* the JSONL file: a sequence of lines
    fb_findings,    \* the finding list last handed to apply_feedback_filter
    fb_out,         \* what that call returned
    fb_out2,        \* what a second pass over fb_out returned
    fb_op,          \* the feedback operation performed last
    \* ---- numeric outlier scan (src/.../_graph.py) ----
    num_col,        \* name of the scanned column
    num_cells,      \* the raw cells of that column, one per row
    outliers,       \* result of _detect_numeric_outliers
    \* ---- verification workflow (src/.../_verifier.py, _graph.py) ----
    wf,             \* the VerificationState threaded through the nodes; before the
                    \* graph is invoked, the sample rows detect_and_verify passes
    wf_node,        \* node of the graph the workflow is at
    llm_available,  \* whether _get_llm() returns a client in this run
    langgraph_available, \* _LANGGRAPH_AVAILABLE
    wf_trace,       \* nodes executed so far
    wf_raised,      \* for each node executed: did its call of the backend raise
    \* ---- processes appending to one ledger file (_feedback.py 77-83) ----
    ledger_file,    \* the bytes of the file, as the chunks write(2) calls added
    writers,        \* per process: where it is in record_feedback, its record
    batch,          \* the locals of detect_grounded_batch and what it returned
    merged_findings, \* verified_findings of the return of detect_and_verify
    adj,            \* one finding in the loop of apply_feedback_filter, five decimals kept
    call            \* one call of a helper function: its arguments and its return

scanVars == <<pc, rules, headers, min_confidence, early_exit, total_rows,
              compiled, row_idx, raw_findings, raw_count, rows_scanned, sprt,
              monitor_seen, result>>
fbVars   == <<ledger, fb_findings, fb_out, fb_out2, fb_op>>
numVars  == <<num_col, num_cells, outliers>>
wfVars   == <<wf, wf_node, llm_available, langgraph_available, wf_trace, wf_raised>>
wrVars   == <<ledger_file, writers>>
batchVars == <<batch>>
dvVars   == <<merged_findings>>
adjVars  == <<adj>>
callVars == <<call>>
restVars == <<wrVars, batchVars, dvVars, adjVars, callVars>>
vars     == <<scanVars, fbVars, numVars, wfVars, restVars>>

(***************************************************************************)
(* Generic helpers                                                         *)
(***************************************************************************)
Range(s) == {s[i] : i \in 1..Len(s)}

Min2(a, b) == IF a <= b THEN a ELSE b

Max2(a, b) == IF a >= b THEN a ELSE b

(***************************************************************************)
(* Strings of the model.  str.lower() on the header and target names used. *)
(***************************************************************************)
Lower(s) ==
    CASE s = "Account" -> "account"
      [] s = "Amount"  -> "amount"
      [] s = "AMOUNT"  -> "amount"
      [] s = "Memo"    -> "memo"
      [] s = "Description" -> "description"
      [] OTHER         -> s

(***************************************************************************)
(* Regular expressions.  A pattern is known by the values it finds a match *)
(* in (regex.search) and by the text it matches there (match.group(0)).    *)
(***************************************************************************)
PatNegative == "^-[0-9]+"
PatCash     == "cash"
PatDigit    == "[0-9]"
PatRate     == "^[0-9]+\\.[0-9]+$"
PatInvalid  == "("

\* re.compile(pattern) raises re.error
RegexInvalid(pattern) == pattern = PatInvalid

\* regex.search(str(value)) finds a match
Matches(pattern, value) ==
    CASE pattern = PatNegative -> value \in {"-5"}
      [] pattern = PatCash     -> value \in {"cash"}
      [] pattern = PatDigit    -> value \in {"-5", "7", "1.1", "83.8"}
      [] pattern = PatRate     -> value \in {"1.1", "83.8"}
      [] OTHER                 -> FALSE

\* match.group(0)
MatchGroup0(pattern, value) ==
    CASE pattern = PatDigit /\ value = "-5"   -> "5"
      [] pattern = PatDigit /\ value = "1.1"  -> "1"
      [] pattern = PatDigit /\ value = "83.8" -> "8"
      [] OTHER                                -> value

(***************************************************************************)
(* _compile_rules  (_grounded.py 525-586)                                  *)
(***************************************************************************)
\* header_lower = {h.lower(): h for h in headers}: a later header wins
HeaderLowerHas(hdrs, k) == \E i \in 1..Len(hdrs) : Lower(hdrs[i]) = k

HeaderLowerGet(hdrs, k) ==
    hdrs[CHOOSE i \in 1..Len(hdrs) :
            /\ Lower(hdrs[i]) = k
            /\ \A j \in (i + 1)..Len(hdrs) : Lower(hdrs[j]) # k]

\* lines 568-574: exact match first, then case-insensitive
RECURSIVE ResolveTargets(_, _)
ResolveTargets(targets, hdrs) ==
    IF targets = <<>> THEN <<>>
    ELSE LET target == Head(targets)
             rest   == ResolveTargets(Tail(targets), hdrs)
         IN  IF target \in Range(hdrs) THEN <<target>> \o rest
             ELSE IF HeaderLowerHas(hdrs, Lower(target))
                  THEN <<HeaderLowerGet(hdrs, Lower(target))>> \o rest
                  ELSE rest

\* RuleFields with the fallback to every column for a rule whose targets
\* resolve to nothing
RuleFieldsFallback(rule, hdrs) ==
    IF rule.field_targets # <<>>
    THEN LET resolved == ResolveTargets(rule.field_targets, hdrs)
         IN  IF resolved = <<>> THEN [skip |-> FALSE, fields |-> hdrs]
             ELSE [skip |-> FALSE, fields |-> resolved]
    ELSE [skip |-> FALSE, fields |-> hdrs]

\* lines 566-582: the fields a rule is checked on; skip when none of its
\* declared targets is a column of the file (lines 578-579)
RuleFields(rule, hdrs) ==
    IF rule.field_targets # <<>>
    THEN LET resolved == ResolveTargets(rule.field_targets, hdrs)
         IN  IF resolved = <<>> THEN [skip |-> TRUE, fields |-> <<>>]
             ELSE [skip |-> FALSE, fields |-> resolved]
    ELSE [skip |-> FALSE, fields |-> hdrs]

\* lines 549-564 and 578-579: the rule does not reach compiled.append
RuleSkipped(rule, hdrs, floor) ==
    \/ rule.pattern = ""
    \/ rule.confidence < floor
    \/ RegexInvalid(rule.pattern)
    \/ RuleFields(rule, hdrs).skip

RECURSIVE compile_rules(_, _, _)
compile_rules(rs, hdrs, floor) ==
    IF rs = <<>> THEN <<>>
    ELSE LET rule == Head(rs)
             rest == compile_rules(Tail(rs), hdrs, floor)
         IN  IF RuleSkipped(rule, hdrs, floor) THEN rest
             ELSE <<[rule |-> rule, regex |-> rule.pattern,
                     fields |-> RuleFields(rule, hdrs).fields]>> \o rest

(***************************************************************************)
(* _check_row  (_grounded.py 589-634) and _extract_account (637-662)       *)
(***************************************************************************)
ACCOUNT_COLUMNS ==
    <<"account", "account_code", "account_name", "acct", "acct_code",
      "account_id", "acct_id", "gl_account", "account_number",
      "name", "description", "label">>

\* row.get(field, "")
RowGet(row, field) == IF field \in DOMAIN row THEN row[field] ELSE ""

\* The values of the model are shorter than 120 characters, so _truncate
\* returns them unchanged.
RECURSIVE FirstAccountColumn(_, _, _)
FirstAccountColumn(cols, row, hdrs) ==
    IF cols = <<>> THEN ""
    ELSE LET col == Head(cols)
         IN  IF HeaderLowerHas(hdrs, col) /\ RowGet(row, HeaderLowerGet(hdrs, col)) # ""
             THEN RowGet(row, HeaderLowerGet(hdrs, col))
             ELSE FirstAccountColumn(Tail(cols), row, hdrs)

RECURSIVE FirstNonEmpty(_, _)
FirstNonEmpty(hdrs, row) ==
    IF hdrs = <<>> THEN ""
    ELSE IF RowGet(row, Head(hdrs)) # "" THEN RowGet(row, Head(hdrs))
         ELSE FirstNonEmpty(Tail(hdrs), row)

extract_account(row, hdrs) ==
    LET named == FirstAccountColumn(ACCOUNT_COLUMNS, row, hdrs)
    IN  IF named # "" THEN named ELSE FirstNonEmpty(hdrs, row)

\* lines 605-632: the first field, in field order, whose non-empty value the
\* pattern matches; 0 when there is none
FirstMatchIndex(regex, fields, row) ==
    IF \E i \in 1..Len(fields) :
           RowGet(row, fields[i]) # "" /\ Matches(regex, RowGet(row, fields[i]))
    THEN CHOOSE i \in 1..Len(fields) :
           /\ RowGet(row, fields[i]) # "" /\ Matches(regex, RowGet(row, fields[i]))
           /\ \A j \in 1..(i - 1) :
                ~(RowGet(row, fields[j]) # "" /\ Matches(regex, RowGet(row, fields[j])))
    ELSE 0

MakeFinding(ridx, row, hdrs, c, field) ==
    [finding_type  |-> c.rule.finding_type,
     severity      |-> c.rule.severity,
     account       |-> extract_account(row, hdrs),
     row_index     |-> ridx,
     field         |-> field,
     matched_value |-> MatchGroup0(c.regex, RowGet(row, field)),
     confidence    |-> c.rule.confidence,
     rule_id       |-> c.rule.rule_id]

\* The inner loop without its break: a finding for every matching field
RuleFindingsNoBreak(ridx, row, hdrs, c) ==
    LET hit(i)  == RowGet(row, c.fields[i]) # "" /\ Matches(c.regex, RowGet(row, c.fields[i]))
        matched == SelectSeq([i \in 1..Len(c.fields) |-> i], hit)
    IN  [k \in 1..Len(matched) |-> MakeFinding(ridx, row, hdrs, c, c.fields[matched[k]])]

\* lines 605-632: the inner loop over the fields of one compiled rule, which
\* breaks after the first finding
RuleFindings(ridx, row, hdrs, c) ==
    LET i == FirstMatchIndex(c.regex, c.fields, row)
    IN  IF i = 0 THEN <<>> ELSE <<MakeFinding(ridx, row, hdrs, c, c.fields[i])>>

RECURSIVE check_row(_, _, _, _)
check_row(ridx, row, hdrs, comp) ==
    IF comp = <<>> THEN <<>>
    ELSE RuleFindings(ridx, row, hdrs, Head(comp))
            \o check_row(ridx, row, hdrs, Tail(comp))


(***************************************************************************)
(* Feedback store  (_feedback.py)                                          *)
(***************************************************************************)
SUPPRESS_THRESHOLD == 3
CONFIRM_BOOST      == 500
DISMISS_PENALTY    == 800
MIN_CONFIDENCE     == 500
MAX_CONFIDENCE     == 10000

\* A line of the JSONL file written by record_feedback (lines 68-83)
FeedbackLine(finding_id, confirmed, metadata) ==
    [json       |-> TRUE,
     finding_id |-> finding_id,
     action     |-> IF confirmed THEN "confirmed" ELSE "dismissed",
     rule_id    |-> metadata.rule_id,
     finding_type |-> metadata.finding_type]

\* finding_metadata=None: metadata.get(..., "") yields empty strings
NoMetadata == [rule_id |-> "", finding_type |-> ""]

\* AppendLine with the file opened in mode "w": earlier lines are lost
AppendLineTruncating(lines, line) == <<line>>

\* open(fb_path, "a") ... f.write(line + "\n")
AppendLine(lines, line) == Append(lines, line)

\* _load_feedback (259-282): blank and undecodable lines are skipped
load_feedback(lines) == SelectSeq(lines, LAMBDA l : l.json)

\* CountRecords in which a record without rule_id counts for every pair
RECURSIVE CountRecordsAnyRule(_, _, _)
CountRecordsAnyRule(records, key, confirmedOnes) ==
    IF records = <<>> THEN 0
    ELSE LET r == Head(records)
             counts == /\ (r.rule_id = "" \/ <<r.rule_id, r.finding_type>> = key)
                       /\ (r.action = "confirmed") = confirmedOnes
         IN  (IF counts THEN 1 ELSE 0)
                 + CountRecordsAnyRule(Tail(records), key, confirmedOnes)

\* _build_tallies (285-313): records without rule_id are skipped
RECURSIVE CountRecords(_, _, _)
CountRecords(records, key, confirmedOnes) ==
    IF records = <<>> THEN 0
    ELSE LET r == Head(records)
             counts == /\ r.rule_id # ""
                       /\ <<r.rule_id, r.finding_type>> = key
                       /\ (r.action = "confirmed") = confirmedOnes
         IN  (IF counts THEN 1 ELSE 0) + CountRecords(Tail(records), key, confirmedOnes)

HasTally(records, key) ==
    \E i \in 1..Len(records) :
        records[i].rule_id # "" /\ <<records[i].rule_id, records[i].finding_type>> = key

Tally(records, key) ==
    [confirmed |-> CountRecords(records, key, TRUE),
     dismissed |-> CountRecords(records, key, FALSE)]

\* IsSuppressed with the threshold one too high
IsSuppressedOffByOne(tally) ==
    tally.dismissed > SUPPRESS_THRESHOLD + 1 /\ tally.confirmed = 0

\* IsSuppressed that never looks at the confirmations
IsSuppressedSticky(tally) ==
    tally.dismissed > SUPPRESS_THRESHOLD

\* line 148
IsSuppressed(tally) ==
    tally.dismissed > SUPPRESS_THRESHOLD /\ tally.confirmed = 0

\* lines 160-166; round(., 4) leaves a multiple of 1e-4 as it is
AdjustedConfidence(confidence, tally) ==
    LET net        == tally.confirmed - tally.dismissed
        adjustment == IF net >= 0 THEN net * CONFIRM_BOOST ELSE net * DISMISS_PENALTY
    IN  Max2(MIN_CONFIDENCE, Min2(MAX_CONFIDENCE, confidence + adjustment))

FindingKey(f) == <<f.rule_id, f.finding_type>>

\* lines 135-168, the loop over the findings
RECURSIVE FilterLoop(_, _)
FilterLoop(findings, records) ==
    IF findings = <<>> THEN <<>>
    ELSE LET f    == Head(findings)
             rest == FilterLoop(Tail(findings), records)
         IN  IF ~HasTally(records, FindingKey(f)) THEN <<f>> \o rest
             ELSE IF IsSuppressed(Tally(records, FindingKey(f))) THEN rest
             ELSE <<[f EXCEPT !.confidence =
                        AdjustedConfidence(f.confidence, Tally(records, FindingKey(f)))]>>
                  \o rest

\* apply_feedback_filter (102-177)
apply_feedback_filter(findings, lines) ==
    LET records == load_feedback(lines)
    IN  IF records = <<>> THEN findings ELSE FilterLoop(findings, records)

\* The filter assigns finding.confidence on the objects of the list it was
\* given: the caller's list holds the same objects afterwards.
RECURSIVE MutatedInPlace(_, _)
MutatedInPlace(findings, lines) ==
    IF findings = <<>> THEN <<>>
    ELSE LET f       == Head(findings)
             records == load_feedback(lines)
             rest    == MutatedInPlace(Tail(findings), lines)
             touched == /\ records # <<>>
                        /\ HasTally(records, FindingKey(f))
                        /\ ~IsSuppressed(Tally(records, FindingKey(f)))
         IN  <<IF touched
               THEN [f EXCEPT !.confidence =
                        AdjustedConfidence(f.confidence, Tally(records, FindingKey(f)))]
               ELSE f>> \o rest

(***************************************************************************)
(* SPRT  (_grounded.py 55-117)                                             *)
(***************************************************************************)
SPRT_MIN_ROWS  == 100
\* math.log(_SPRT_P1 / _SPRT_P0) = 2.302585...
LLR_FINDING    == 2302585
\* math.log((1 - _SPRT_P1) / (1 - _SPRT_P0)) = -0.009049835...
LLR_NO_FINDING == -9050
\* _SPRT_A = math.log(0.95 / 0.05) = 2.944438...,  _SPRT_B = -_SPRT_A
SPRT_A         == 2944439
SPRT_B         == -2944439

NoSPRT == [llr |-> 0, rows_checked |-> 0, findings_count |-> 0, decision |-> "off"]

\* _SPRTState.__init__; decision None is "none"
NewSPRT == [llr |-> 0, rows_checked |-> 0, findings_count |-> 0, decision |-> "none"]

\* SPRTDecide without the test that no decision was taken yet
SPRTDecideRevisable(rows_checked, llr, decision) ==
    IF rows_checked >= SPRT_MIN_ROWS
    THEN IF llr <= SPRT_B THEN "clean"
         ELSE IF llr >= SPRT_A THEN "anomalous"
         ELSE decision
    ELSE decision

\* SPRTDecide without the minimum row count
SPRTDecideNoMinimum(rows_checked, llr, decision) ==
    IF decision = "none"
    THEN IF llr <= SPRT_B THEN "clean"
         ELSE IF llr >= SPRT_A THEN "anomalous"
         ELSE decision
    ELSE decision

\* lines 98-102
SPRTDecide(rows_checked, llr, decision) ==
    IF rows_checked >= SPRT_MIN_ROWS /\ decision = "none"
    THEN IF llr <= SPRT_B THEN "clean"
         ELSE IF llr >= SPRT_A THEN "anomalous"
         ELSE decision
    ELSE decision

\* SPRTUpdate with the two log-likelihood increments exchanged
SPRTUpdateSwapped(st, has_finding) ==
    LET rc  == st.rows_checked + 1
        fc  == IF has_finding THEN st.findings_count + 1 ELSE st.findings_count
        llr == IF has_finding THEN st.llr + LLR_NO_FINDING ELSE st.llr + LLR_FINDING
    IN  [llr |-> llr, rows_checked |-> rc, findings_count |-> fc,
         decision |-> SPRTDecide(rc, llr, st.decision)]

\* _SPRTState.update (86-102)
SPRTUpdate(st, has_finding) ==
    LET rc  == st.rows_checked + 1
        fc  == IF has_finding THEN st.findings_count + 1 ELSE st.findings_count
        llr == IF has_finding THEN st.llr + LLR_FINDING ELSE st.llr + LLR_NO_FINDING
    IN  [llr |-> llr, rows_checked |-> rc, findings_count |-> fc,
         decision |-> SPRTDecide(rc, llr, st.decision)]


(***************************************************************************)
(* detect_grounded  (_grounded.py 120-329)                                 *)
(***************************************************************************)
MAX_FINDINGS_PER_FILE == 500

\* Bounds of the model
MaxFileRows  == 2
MaxRows      == 327
MaxScanRules == 3

\* The cell values of a column in the files of the model
Values(h) ==
    CASE Lower(h) = "account" -> {"", "cash"}
      [] Lower(h) = "amount"  -> {"", "-5"}
      [] Lower(h) = "name"    -> {"", "cash"}
      [] Lower(h) = "fx_rate" -> {"1.1", "-5", "83.8"}
      [] OTHER                -> {"", "-5", "cash"}

\* The rows csv.DictReader can yield for a header list
Rows(hdrs) == {row \in [Range(hdrs) -> {"", "-5", "cash", "1.1", "83.8"}] :
                  \A h \in Range(hdrs) : row[h] \in Values(h)}

\* Steps 1-3 (lines 174-205): the early returns for no rules and no rows,
\* then _compile_rules and the fresh scan state
Load ==
    /\ pc = "start"
    /\ IF rules = <<>> \/ total_rows = 0
       THEN /\ pc' = "done"
            /\ result' = <<>>
            /\ UNCHANGED <<compiled, sprt>>
       ELSE /\ pc' = "scan"
            /\ compiled' = compile_rules(rules, headers, min_confidence)
            /\ sprt' = IF early_exit THEN NewSPRT ELSE NoSPRT
            /\ UNCHANGED result
    /\ UNCHANGED <<rules, headers, min_confidence, early_exit, total_rows, row_idx,
                   raw_findings, raw_count, rows_scanned, monitor_seen>>
    /\ UNCHANGED <<fbVars, numVars, wfVars, restVars>>

\* ScanStep without the break on a clean decision
ScanStepNoBreak(keep_list) ==
    /\ pc = "scan"
    /\ row_idx < total_rows
    /\ raw_count < MAX_FINDINGS_PER_FILE
    /\ \E row \in Rows(headers) :
         LET row_findings == check_row(row_idx, row, headers, compiled)
             after        == IF early_exit
                             THEN SPRTUpdate(sprt, Len(row_findings) > 0)
                             ELSE sprt
         IN  /\ raw_findings' = IF keep_list THEN raw_findings \o row_findings
                                ELSE raw_findings
             /\ raw_count' = raw_count + Len(row_findings)
             /\ rows_scanned' = rows_scanned + 1
             /\ sprt' = after
             /\ pc' = pc /\ row_idx' = row_idx + 1
    /\ UNCHANGED <<rules, headers, min_confidence, early_exit, total_rows, compiled,
                   monitor_seen, result>>
    /\ UNCHANGED <<fbVars, numVars, wfVars, restVars>>

\* ScanStep with the break taken on any decision
ScanStepBreaksOnDecision(keep_list) ==
    /\ pc = "scan"
    /\ row_idx < total_rows
    /\ raw_count < MAX_FINDINGS_PER_FILE
    /\ \E row \in Rows(headers) :
         LET row_findings == check_row(row_idx, row, headers, compiled)
             after        == IF early_exit
                             THEN SPRTUpdate(sprt, Len(row_findings) > 0)
                             ELSE sprt
         IN  /\ raw_findings' = IF keep_list THEN raw_findings \o row_findings
                                ELSE raw_findings
             /\ raw_count' = raw_count + Len(row_findings)
             /\ rows_scanned' = rows_scanned + 1
             /\ sprt' = after
             /\ IF early_exit /\ after.decision \in {"clean", "anomalous"}
                THEN pc' = "monitor" /\ row_idx' = row_idx
                ELSE pc' = pc /\ row_idx' = row_idx + 1
    /\ UNCHANGED <<rules, headers, min_confidence, early_exit, total_rows, compiled,
                   monitor_seen, result>>
    /\ UNCHANGED <<fbVars, numVars, wfVars, restVars>>

\* One iteration of the loop of lines 207-230 on the row read at row_idx.
\* keep_list = FALSE follows len(raw_findings) only (raw_count).
ScanStep(keep_list) ==
    /\ pc = "scan"
    /\ row_idx < total_rows
    /\ raw_count < MAX_FINDINGS_PER_FILE
    /\ \E row \in Rows(headers) :
         LET row_findings == check_row(row_idx, row, headers, compiled)
             after        == IF early_exit
                             THEN SPRTUpdate(sprt, Len(row_findings) > 0)
                             ELSE sprt
         IN  /\ raw_findings' = IF keep_list THEN raw_findings \o row_findings
                                ELSE raw_findings
             /\ raw_count' = raw_count + Len(row_findings)
             /\ rows_scanned' = rows_scanned + 1
             /\ sprt' = after
             /\ IF early_exit /\ after.decision = "clean"
                THEN pc' = "monitor" /\ row_idx' = row_idx
                ELSE pc' = pc /\ row_idx' = row_idx + 1
    /\ UNCHANGED <<rules, headers, min_confidence, early_exit, total_rows, compiled,
                   monitor_seen, result>>
    /\ UNCHANGED <<fbVars, numVars, wfVars, restVars>>

ScanRow == ScanStep(TRUE)

ScanRowCounting == ScanStep(FALSE)

\* The loop ends: no row is left (line 207) or the findings cap is hit (208-215)
ScanExit ==
    /\ pc = "scan"
    /\ (row_idx >= total_rows \/ raw_count >= MAX_FINDINGS_PER_FILE)
    /\ pc' = "monitor"
    /\ UNCHANGED <<rules, headers, min_confidence, early_exit, total_rows, compiled,
                   row_idx, raw_findings, raw_count, rows_scanned, sprt,
                   monitor_seen, result>>
    /\ UNCHANGED <<fbVars, numVars, wfVars, restVars>>

\* Monitor with the monitors run on what the feedback filter returns
MonitorSeesFiltered ==
    /\ pc = "monitor"
    /\ monitor_seen' = apply_feedback_filter(raw_findings, ledger)
    /\ pc' = "filter"
    /\ UNCHANGED <<rules, headers, min_confidence, early_exit, total_rows, compiled,
                   row_idx, raw_findings, raw_count, rows_scanned, sprt, result>>
    /\ UNCHANGED <<fbVars, numVars, wfVars, restVars>>

\* Step 5c (lines 242-255): run_all_monitors(raw_findings).  The enrichment of
\* steps 5 and 5b only rewrites grounding_context and graphrag_results.
Monitor ==
    /\ pc = "monitor"
    /\ monitor_seen' = raw_findings
    /\ pc' = "filter"
    /\ UNCHANGED <<rules, headers, min_confidence, early_exit, total_rows, compiled,
                   row_idx, raw_findings, raw_count, rows_scanned, sprt, result>>
    /\ UNCHANGED <<fbVars, numVars, wfVars, restVars>>

\* Step 6 (lines 257-262): apply_feedback_filter(raw_findings, feedback_path)
Filter ==
    /\ pc = "filter"
    /\ result' = apply_feedback_filter(raw_findings, ledger)
    /\ raw_findings' = MutatedInPlace(raw_findings, ledger)
    /\ pc' = "done"
    /\ UNCHANGED <<rules, headers, min_confidence, early_exit, total_rows, compiled,
                   row_idx, raw_count, rows_scanned, sprt, monitor_seen>>
    /\ UNCHANGED <<fbVars, numVars, wfVars, restVars>>

(***************************************************************************)
(* States in which a component is not in use                               *)
(***************************************************************************)
ScanIdle ==
    /\ rules = <<>> /\ headers = <<>> /\ min_confidence = 0
    /\ early_exit = FALSE /\ total_rows = 0 /\ compiled = <<>> /\ row_idx = 0
    /\ raw_findings = <<>> /\ raw_count = 0 /\ rows_scanned = 0 /\ sprt = NoSPRT
    /\ monitor_seen = <<>> /\ result = <<>>

FbIdle ==
    /\ ledger = <<>> /\ fb_findings = <<>> /\ fb_out = <<>> /\ fb_out2 = <<>>
    /\ fb_op = "none"

NumIdle == num_col = "" /\ num_cells = <<>> /\ outliers = <<>>

WrIdle == ledger_file = <<>> /\ writers = <<>>

BatchIdle == batch = [at |-> "idle"]

DvIdle == merged_findings = <<>>

AdjIdle == adj = [at |-> "idle"]

CallIdle == call = [fn |-> "idle"]

RestIdle == WrIdle /\ BatchIdle /\ DvIdle /\ AdjIdle /\ CallIdle

WfIdle == wf = [unused |-> TRUE] /\ wf_node = "idle" /\ llm_available = FALSE
          /\ langgraph_available = FALSE /\ wf_trace = <<>> /\ wf_raised = <<>>

(***************************************************************************)
(* SpecScan: the scan loop of detect_grounded on files of up to MaxRows    *)
(* rows, following the length of raw_findings.  Every rule of the run has  *)
(* the same pattern, so a row yields a finding for each rule or for none.  *)
(***************************************************************************)
ScanRule(i) ==
    [rule_id |-> <<"S", i>>, pattern |-> PatNegative, field_targets |-> <<>>,
     finding_type |-> "sign_reversal", severity |-> "high", confidence |-> 9000]

ScanFileSizes == {150, MaxRows}

InitScan ==
    /\ pc = "start"
    /\ headers = <<"amount">>
    /\ \E k \in 1..MaxScanRules : rules = [i \in 1..k |-> ScanRule(i)]
    /\ min_confidence = 0
    /\ early_exit \in BOOLEAN
    /\ total_rows \in ScanFileSizes
    /\ compiled = <<>> /\ row_idx = 0 /\ raw_findings = <<>> /\ raw_count = 0
    /\ rows_scanned = 0 /\ sprt = NoSPRT /\ monitor_seen = <<>> /\ result = <<>>
    /\ FbIdle /\ NumIdle /\ WfIdle /\ RestIdle

NextScan == Load \/ ScanRowCounting \/ ScanExit

SpecScan == InitScan /\ [][NextScan]_vars


(***************************************************************************)
(* Properties of the SPRT-gated scan (SpecScan)                            *)
(***************************************************************************)
\* C2: while fewer than SPRT_MIN_ROWS rows have been checked the SPRT decision
\* is undecided, whatever rows were seen and however far the ratio is past a
\* threshold.
C2_NoDecisionBeforeMinRows ==
    (sprt # NoSPRT /\ sprt.rows_checked < SPRT_MIN_ROWS) => sprt.decision = "none"

\* Fewer than the minimum rows checked and the ratio already at or above A
C2_Witness ==
    /\ early_exit /\ pc = "scan"
    /\ sprt.rows_checked > 0 /\ sprt.rows_checked < SPRT_MIN_ROWS
    /\ sprt.llr >= SPRT_A
    /\ sprt.decision = "none"

\* C3: with early exit on, once the decision is clean the loop has stopped at
\* that row: no further row can be checked, and rows_scanned is the number of
\* the row (row_idx + 1) at which clean was decided.
C3_CleanStopsScan ==
    (early_exit /\ sprt.decision = "clean") =>
        /\ pc # "scan"
        /\ ~ENABLED ScanRowCounting
        /\ rows_scanned = sprt.rows_checked
        /\ rows_scanned = row_idx + 1
        /\ sprt.llr <= SPRT_B
        /\ rows_scanned >= SPRT_MIN_ROWS

\* A clean decision with rows of the file left unread
C3_Witness ==
    /\ early_exit /\ sprt.decision = "clean"
    /\ pc = "monitor"
    /\ rows_scanned < total_rows

\* C4 as claimed: a 150-row file without any finding is certified clean at some
\* row from 100 to 149 and the scan halts before row 150.
C4_Original ==
    (early_exit /\ total_rows = 150 /\ pc = "monitor" /\ raw_count = 0) =>
        /\ sprt.decision = "clean"
        /\ rows_scanned >= SPRT_MIN_ROWS
        /\ rows_scanned < 150

\* C4 (amended): with the default parameters a scan without any finding stays
\* undecided through row 325 and is certified clean at row 326; a 150-row file
\* without findings is therefore scanned to its last row with the decision
\* still undecided.
C4_CleanOnlyAtRow326 ==
    (early_exit /\ sprt # NoSPRT /\ sprt.findings_count = 0) =>
        /\ sprt.rows_checked <= 326
        /\ sprt.decision = IF sprt.rows_checked < 326 THEN "none" ELSE "clean"
        /\ (total_rows = 150 /\ pc = "monitor") =>
               (rows_scanned = 150 /\ sprt.decision = "none")

\* The 150-row file without findings, after its scan
C4_Witness ==
    /\ early_exit /\ total_rows = 150 /\ pc = "monitor"
    /\ raw_count = 0 /\ rows_scanned = 150 /\ sprt.findings_count = 0

\* C14: once SPRT_MIN_ROWS rows are checked, a ratio at or above A makes the
\* decision anomalous, and an anomalous decision does not end the scan: no row
\* is skipped, the next row can be checked while rows are left and the cap is
\* not hit, and the loop is left only at the end of the file or at the cap.
C14_AnomalousKeepsScanning ==
    (early_exit /\ sprt # NoSPRT) =>
        /\ (sprt.rows_checked >= SPRT_MIN_ROWS /\ sprt.llr >= SPRT_A) =>
               sprt.decision = "anomalous"
        /\ sprt.decision = "anomalous" =>
               /\ rows_scanned = row_idx
               /\ rows_scanned = sprt.rows_checked
               /\ (pc = "scan" /\ row_idx < total_rows
                      /\ raw_count < MAX_FINDINGS_PER_FILE) => ENABLED ScanRowCounting
               /\ pc # "scan" =>
                      \/ rows_scanned = total_rows
                      \/ raw_count >= MAX_FINDINGS_PER_FILE

\* An anomalous file read to its last row below the cap, with rows checked
\* after the decision (the ratio has since fallen below A)
C14_Witness ==
    /\ early_exit /\ sprt.decision = "anomalous"
    /\ pc = "monitor"
    /\ rows_scanned = total_rows
    /\ raw_count < MAX_FINDINGS_PER_FILE
    /\ sprt.llr < SPRT_A


(***************************************************************************)
(* SpecFeedback: record_feedback, apply_feedback_filter and                *)
(* get_detection_stats called in any order on one ledger.                  *)
(***************************************************************************)
MaxLedger == 5

\* finding_metadata values given to record_feedback
Metadatas ==
    {NoMetadata,
     [rule_id |-> "R1", finding_type |-> "balance_mismatch"],
     [rule_id |-> "R1", finding_type |-> "custom"]}

\* The (rule_id, finding_type) pairs that name a rule
RulePairs == {<<m.rule_id, m.finding_type>> : m \in Metadatas \ {NoMetadata}}

FbFinding(rule_id, finding_type, confidence) ==
    [finding_type |-> finding_type, severity |-> "medium", account |-> "1000",
     row_index |-> 0, field |-> "amount", matched_value |-> "-5",
     confidence |-> confidence, rule_id |-> rule_id]

\* Finding lists handed to apply_feedback_filter
FindingLists ==
    {<<FbFinding("R1", "balance_mismatch", 9000)>>,
     <<FbFinding("R1", "balance_mismatch", 9000), FbFinding("R1", "custom", 5000)>>,
     <<FbFinding("R2", "custom", 9800), FbFinding("R1", "balance_mismatch", 700)>>,
     <<FbFinding("R1", "custom", 10000), FbFinding("R1", "custom", 10000)>>}

\* record_feedback (39-99) on a writable ledger
RecordFeedback(confirmed, metadata) ==
    /\ Len(ledger) < MaxLedger
    /\ ledger' = AppendLine(ledger, FeedbackLine("finding_1", confirmed, metadata))
    /\ fb_op' = "record"
    /\ fb_findings' = <<>> /\ fb_out' = <<>> /\ fb_out2' = <<>>
    /\ UNCHANGED <<scanVars, numVars, wfVars, restVars>>

\* apply_feedback_filter(findings, feedback_path); fb_findings keeps the
\* findings as they were given
ApplyFilter(findings) ==
    /\ fb_findings' = findings
    /\ fb_out' = apply_feedback_filter(findings, ledger)
    /\ fb_out2' = <<>>
    /\ fb_op' = "filter"
    /\ UNCHANGED ledger
    /\ UNCHANGED <<scanVars, numVars, wfVars, restVars>>

\* apply_feedback_filter called again on what it returned
ReFilter ==
    /\ fb_op = "filter"
    /\ fb_out2' = apply_feedback_filter(fb_out, ledger)
    /\ fb_op' = "refilter"
    /\ UNCHANGED <<ledger, fb_findings, fb_out>>
    /\ UNCHANGED <<scanVars, numVars, wfVars, restVars>>

\* get_detection_stats (180-253) only reads the ledger
GetStats ==
    /\ fb_op # "stats"
    /\ fb_op' = "stats"
    /\ fb_findings' = <<>> /\ fb_out' = <<>> /\ fb_out2' = <<>>
    /\ UNCHANGED ledger
    /\ UNCHANGED <<scanVars, numVars, wfVars, restVars>>

InitFeedback == pc = "feedback" /\ ScanIdle /\ FbIdle /\ NumIdle /\ WfIdle /\ RestIdle

NextFeedback ==
    \/ \E confirmed \in BOOLEAN, metadata \in Metadatas : RecordFeedback(confirmed, metadata)
    \/ \E findings \in FindingLists : ApplyFilter(findings)
    \/ ReFilter
    \/ GetStats

SpecFeedback == InitFeedback /\ [][NextFeedback]_vars

(***************************************************************************)
(* Properties of the feedback store (SpecFeedback)                         *)
(***************************************************************************)
\* Counted on the ledger lines themselves
Dismissals(lines, pair) ==
    Cardinality({i \in 1..Len(lines) :
        lines[i].json /\ <<lines[i].rule_id, lines[i].finding_type>> = pair
        /\ lines[i].action = "dismissed"})

Confirmations(lines, pair) ==
    Cardinality({i \in 1..Len(lines) :
        lines[i].json /\ <<lines[i].rule_id, lines[i].finding_type>> = pair
        /\ lines[i].action = "confirmed"})

HasPair(findings, pair) ==
    \E i \in 1..Len(findings) : <<findings[i].rule_id, findings[i].finding_type>> = pair

\* C5: when a pair that names a rule has more than 3 dismissals and no
\* confirmation in the ledger, the filter's output holds no finding of the pair,
\* and a second pass over the output with the same ledger removes nothing.
C5_SuppressedPairAbsent ==
    /\ fb_op \in {"filter", "refilter"} =>
         \A pair \in RulePairs :
            (Dismissals(ledger, pair) > 3 /\ Confirmations(ledger, pair) = 0)
                => ~HasPair(fb_out, pair)
    /\ fb_op = "refilter" =>
         /\ Len(fb_out2) = Len(fb_out)
         /\ \A pair \in RulePairs :
              (Dismissals(ledger, pair) > 3 /\ Confirmations(ledger, pair) = 0)
                  => ~HasPair(fb_out2, pair)

\* A finding of a suppressed pair was given, another finding was kept, and the
\* second pass has run
C5_Witness ==
    /\ fb_op = "refilter"
    /\ \E pair \in RulePairs :
         /\ Dismissals(ledger, pair) > 3 /\ Confirmations(ledger, pair) = 0
         /\ HasPair(fb_findings, pair)
    /\ fb_out # <<>>
    /\ Len(fb_out) < Len(fb_findings)

\* A filter pass over the ledger excludes the findings of the pair
Excluded(pair, lines) ==
    apply_feedback_filter(<<FbFinding(pair[1], pair[2], 9000)>>, lines) = <<>>

\* The step records a confirmation for the pair
ConfirmsPair(pair) ==
    /\ Len(ledger') = Len(ledger) + 1
    /\ ledger'[Len(ledger')].action = "confirmed"
    /\ <<ledger'[Len(ledger')].rule_id, ledger'[Len(ledger')].finding_type>> = pair

\* C6 as claimed: once a pair is excluded by the filter it stays excluded
\* whatever feedback is recorded afterwards.
C6_Original ==
    [][\A pair \in RulePairs : Excluded(pair, ledger) => Excluded(pair, ledger')]_vars

\* C6 (amended): a suppressed pair stays excluded as long as no confirmation is
\* recorded for it (further dismissals, feedback on other pairs and records
\* without rule id change nothing); the first confirmation recorded for the
\* pair lifts the suppression.
C6_SuppressedUntilConfirmed ==
    [][\A pair \in RulePairs :
         Excluded(pair, ledger) =>
            (Excluded(pair, ledger') <=> ~ConfirmsPair(pair))]_vars

\* A pair is suppressed and the ledger holds feedback recorded after the
\* fourth dismissal
C6_Witness ==
    \E pair \in RulePairs :
        /\ Excluded(pair, ledger)
        /\ Len(ledger) > Dismissals(ledger, pair)
        /\ Dismissals(ledger, pair) > 3
        /\ ledger[Len(ledger)].action = "confirmed"

\* C10: record_feedback leaves every earlier line where it was and adds one
\* line at the end; the filter and the statistics leave the ledger as it is.
C10_PureAppend ==
    [][/\ fb_op' = "record" =>
            /\ Len(ledger') = Len(ledger) + 1
            /\ \A i \in 1..Len(ledger) : ledger'[i] = ledger[i]
       /\ fb_op' \in {"filter", "refilter", "stats"} => ledger' = ledger]_vars

\* Feedback recorded on a ledger that already held lines
C10_Witness == fb_op = "record" /\ Len(ledger) >= 3


(***************************************************************************)
(* _detect_numeric_outliers  (_graph.py 284-389)                           *)
(* A cell is [num |-> the text parses as a float, val |-> the value in     *)
(* units of 1e-3].  The values of the model keep clear of the exact        *)
(* boundaries (ratio 10 and 0.1, product 0.5 and 2.0), where the float     *)
(* division of the code may round either way.                              *)
(***************************************************************************)
Cell(v) == [num |-> TRUE, val |-> v]

NotANumber == [num |-> FALSE, val |-> 0]

Abs(v) == IF v < 0 THEN -v ELSE v

\* any(kw in col_lower for kw in _NUMERIC_COL_KEYWORDS), on the column names
\* of the model
HasNumericKeyword(col) == Lower(col) \in {"fx_rate", "rate", "amount", "balance"}

\* col_lower in ("rate", "fx_rate")
IsRateColumn(col) == Lower(col) \in {"rate", "fx_rate"}

\* lines 313-321: (row_idx, val) of the cells that parse and are not zero
RECURSIVE CollectValues(_, _)
CollectValues(cells, i) ==
    IF i > Len(cells) THEN <<>>
    ELSE (IF cells[i].num /\ cells[i].val # 0
          THEN <<[row_idx |-> i - 1, val |-> cells[i].val]>>
          ELSE <<>>) \o CollectValues(cells, i + 1)

\* sorted(...)
RECURSIVE Insert(_, _)
Insert(sorted, x) ==
    IF sorted = <<>> THEN <<x>>
    ELSE IF x <= Head(sorted) THEN <<x>> \o sorted
         ELSE <<Head(sorted)>> \o Insert(Tail(sorted), x)

RECURSIVE SortedAbs(_)
SortedAbs(values) ==
    IF values = <<>> THEN <<>>
    ELSE Insert(SortedAbs(Tail(values)), Abs(Head(values).val))

\* lines 327-328: abs_vals[len(abs_vals) // 2]
Median(values) == SortedAbs(values)[(Len(values) \div 2) + 1]

\* IsInversion with a lower limit of 1.0 instead of 0.5
IsInversionAboveOne(product) == 1000000 < product /\ product < 2000000

\* line 342 with the product in units of 1e-6
IsInversion(product) == 500000 < product /\ product < 2000000

\* lines 334-387 for one collected value; <<>> when it is not flagged
FlagValue(v, median, col) ==
    LET abs_val == Abs(v.val)
    IN  IF abs_val > 10 * median
        THEN LET product == abs_val * median
             IN  <<[finding_type |-> IF IsInversion(product) THEN "sign_reversal"
                                     ELSE "balance_mismatch",
                    severity     |-> "critical",
                    account      |-> "",
                    row_index    |-> v.row_idx,
                    field        |-> col,
                    value        |-> v.val,
                    confidence   |-> IF IsInversion(product) THEN 9500 ELSE 8500]>>
        ELSE IF 10 * abs_val < median /\ IsRateColumn(col)
        THEN <<[finding_type |-> "balance_mismatch",
                severity     |-> "high",
                account      |-> "",
                row_index    |-> v.row_idx,
                field        |-> col,
                value        |-> v.val,
                confidence   |-> 7500]>>
        ELSE <<>>

RECURSIVE FlagValues(_, _, _)
FlagValues(values, median, col) ==
    IF values = <<>> THEN <<>>
    ELSE FlagValue(Head(values), median, col) \o FlagValues(Tail(values), median, col)

\* The body of the loop over the columns (lines 307-387) for one column of a
\* file without an account column
detect_numeric_outliers(col, cells) ==
    LET values == CollectValues(cells, 1)
    IN  IF ~HasNumericKeyword(col) THEN <<>>
        ELSE IF Len(values) < 3 THEN <<>>
        ELSE FlagValues(values, Median(values), col)

(***************************************************************************)
(* SpecNumeric: the numeric outlier scan on one column of up to MaxNumRows *)
(* cells, and on the ten-row rate column of the scenario.                  *)
(***************************************************************************)
MaxNumRows == 4

NumCells ==
    {Cell(12), Cell(-13), Cell(83800), Cell(-80000), Cell(50000), Cell(200),
     Cell(1), Cell(0), NotANumber}

\* nine rates near 0.012 and one of 83.8
ScenarioCells ==
    <<Cell(12), Cell(12), Cell(11), Cell(13), Cell(12), Cell(83800), Cell(12),
      Cell(13), Cell(12), Cell(11)>>

NumColumns == {"fx_rate", "Amount", "memo"}

InitNumeric ==
    /\ pc = "numeric"
    /\ num_col \in NumColumns
    /\ num_cells \in {ScenarioCells} \cup
                     UNION {[1..n -> NumCells] : n \in 3..MaxNumRows}
    /\ outliers = <<>>
    /\ ScanIdle /\ FbIdle /\ WfIdle /\ RestIdle

DetectNumericOutliers ==
    /\ pc = "numeric"
    /\ outliers' = detect_numeric_outliers(num_col, num_cells)
    /\ pc' = "numeric_done"
    /\ UNCHANGED <<num_col, num_cells>>
    /\ UNCHANGED <<rules, headers, min_confidence, early_exit, total_rows, compiled,
                   row_idx, raw_findings, raw_count, rows_scanned, sprt,
                   monitor_seen, result>>
    /\ UNCHANGED <<fbVars, wfVars, restVars>>

NextNumeric == DetectNumericOutliers

SpecNumeric == InitNumeric /\ [][NextNumeric]_vars

(***************************************************************************)
(* Properties of the numeric outlier scan (SpecNumeric)                    *)
(***************************************************************************)
\* The median of the absolute non-zero values, by counting
IsMedianOf(m, cells) ==
    LET idx   == {i \in 1..Len(cells) : cells[i].num /\ cells[i].val # 0}
        below == Cardinality({i \in idx : Abs(cells[i].val) < m})
        upto  == Cardinality({i \in idx : Abs(cells[i].val) <= m})
        k     == Cardinality(idx) \div 2
    IN  below <= k /\ k < upto

\* |value| x median within 5% of 1.0, in units of 1e-6
NearOne(product) == 950000 <= product /\ product <= 1050000

\* C9: an outlier reported for a ratio above 10x the median whose
\* |value| x median is within 5% of 1.0 is a sign_reversal with confidence
\* 0.95, never a balance_mismatch; in the scenario column (nine rates near
\* 0.012, one of 83.8) exactly the row of 83.8 is reported, as such.
C9_NearOneIsSignReversal ==
    pc = "numeric_done" =>
        /\ \A i \in 1..Len(outliers), m \in {Abs(c.val) : c \in Range(num_cells)} :
              LET o == outliers[i]
              IN  (/\ IsMedianOf(m, num_cells)
                   /\ Abs(o.value) > 10 * m
                   /\ NearOne(Abs(o.value) * m))
                  => (o.finding_type = "sign_reversal" /\ o.confidence = 9500)
        /\ (num_cells = ScenarioCells /\ num_col = "fx_rate") =>
              /\ Len(outliers) = 1
              /\ outliers[1].row_index = 5
              /\ outliers[1].value = 83800
              /\ outliers[1].finding_type = "sign_reversal"
              /\ outliers[1].confidence = 9500

\* The scenario column has been scanned
C9_Witness ==
    /\ pc = "numeric_done" /\ num_cells = ScenarioCells /\ num_col = "fx_rate"
    /\ outliers # <<>>

(***************************************************************************)
(* SpecDetect: detect_grounded from the loaded rules to the filtered       *)
(* result, on files of up to MaxFileRows rows.                             *)
(***************************************************************************)
RulePool ==
    <<[rule_id |-> "R1", pattern |-> PatNegative, field_targets |-> <<"amount">>,
       finding_type |-> "sign_reversal", severity |-> "high", confidence |-> 9000],
      [rule_id |-> "R2", pattern |-> PatCash, field_targets |-> <<>>,
       finding_type |-> "custom", severity |-> "info", confidence |-> 5000],
      [rule_id |-> "R3", pattern |-> PatDigit, field_targets |-> <<"AMOUNT", "memo">>,
       finding_type |-> "balance_mismatch", severity |-> "medium", confidence |-> 7000],
      [rule_id |-> "R4", pattern |-> PatCash, field_targets |-> <<"balance", "Memo">>,
       finding_type |-> "naming_violation", severity |-> "low", confidence |-> 10000],
      [rule_id |-> "R5", pattern |-> PatInvalid, field_targets |-> <<>>,
       finding_type |-> "custom", severity |-> "medium", confidence |-> 9000],
      [rule_id |-> "R6", pattern |-> "", field_targets |-> <<"amount">>,
       finding_type |-> "custom", severity |-> "medium", confidence |-> 9000]>>

\* The rules of the pool at the positions idx, in pool order
RECURSIVE PickRules(_, _)
PickRules(idx, i) ==
    IF i > Len(RulePool) THEN <<>>
    ELSE (IF i \in idx THEN <<RulePool[i]>> ELSE <<>>) \o PickRules(idx, i + 1)

RuleLists == {PickRules(idx, 1) : idx \in SUBSET (1..Len(RulePool))}

HeaderChoices == {<<"Account", "Amount">>, <<"amount", "memo">>, <<"account">>}

DetectLedgers ==
    {<<>>,
     [i \in 1..5 |->
        IF i <= 4
        THEN FeedbackLine("finding_1", FALSE,
                          [rule_id |-> "R1", finding_type |-> "sign_reversal"])
        ELSE FeedbackLine("finding_2", TRUE,
                          [rule_id |-> "R3", finding_type |-> "balance_mismatch"])]}

InitDetect ==
    /\ pc = "start"
    /\ rules \in RuleLists
    /\ headers \in HeaderChoices
    /\ min_confidence \in {0, 8000}
    /\ early_exit = TRUE
    /\ total_rows \in 0..MaxFileRows
    /\ compiled = <<>> /\ row_idx = 0 /\ raw_findings = <<>> /\ raw_count = 0
    /\ rows_scanned = 0 /\ sprt = NoSPRT /\ monitor_seen = <<>> /\ result = <<>>
    /\ ledger \in DetectLedgers
    /\ fb_findings = <<>> /\ fb_out = <<>> /\ fb_out2 = <<>> /\ fb_op = "none"
    /\ NumIdle /\ WfIdle /\ RestIdle

\* The findings cap is out of reach of files of MaxFileRows rows: the loop
\* ends at the last row.
NextDetect == Load \/ ScanRow \/ ScanExit \/ Monitor \/ Filter

SpecDetect == InitDetect /\ [][NextDetect]_vars

(***************************************************************************)
(* Properties of rule compilation and the row scan (SpecDetect)            *)
(***************************************************************************)
\* The rule declares targets and none is a header, exactly or ignoring case
TargetsMissFile(rule, hdrs) ==
    /\ rule.field_targets # <<>>
    /\ \A t \in Range(rule.field_targets), h \in Range(hdrs) :
          t # h /\ Lower(t) # Lower(h)

\* C8: a rule whose declared target fields match no header of the file is not
\* in the compiled list and no finding of the scan or of the result carries
\* its rule id, whatever the rows hold.
C8_UnresolvedRuleNeverFires ==
    pc # "start" =>
        \A i \in 1..Len(rules) :
            TargetsMissFile(rules[i], headers) =>
                /\ \A j \in 1..Len(compiled) : compiled[j].rule.rule_id # rules[i].rule_id
                /\ \A j \in 1..Len(raw_findings) : raw_findings[j].rule_id # rules[i].rule_id
                /\ \A j \in 1..Len(result) : result[j].rule_id # rules[i].rule_id

\* The run is over, rule R4 (pattern cash, targets absent from the file) was
\* loaded, and a row held "cash": another rule with the same pattern fired
C8_Witness ==
    /\ pc = "done"
    /\ \E i \in 1..Len(rules) :
         /\ rules[i].rule_id = "R4"
         /\ TargetsMissFile(rules[i], headers)
    /\ \E j \in 1..Len(raw_findings) :
         raw_findings[j].rule_id = "R2" /\ raw_findings[j].matched_value = "cash"


(***************************************************************************)
(* Verification workflow  (_verifier.py, _graph.py)                        *)
(*                                                                         *)
(* Findings travel through the workflow as dicts: functions from key to    *)
(* value in which a key may be absent.                                     *)
(***************************************************************************)
\* d.get(k, default)
Get(d, k, default) == IF k \in DOMAIN d THEN d[k] ELSE default

\* {**d, k: v}
DictSet(d, k, v) == (k :> v) @@ d

\* the dict json.loads gives for "{}", and what _parse_json_response returns
\* for text that holds no JSON object (lines 62-77)
EmptyDict == <<>>

\* f.model_dump(mode="json") of the findings of the regex pass, each with the
\* finding_id its constructor drew (_types.py 85)
FindingIds ==
    <<"finding_1", "finding_2", "finding_3", "finding_4", "finding_5", "finding_6",
      "finding_7", "finding_8", "finding_9", "finding_10", "finding_11",
      "finding_12", "finding_13", "finding_14", "finding_15", "finding_16">>

ModelDump(findings) ==
    [i \in 1..Len(findings) |-> DictSet(findings[i], "finding_id", FindingIds[i])]

\* One call of the reasoning backend: llm.ainvoke raises, or answers text that
\* _parse_json_response turns into the dict result
Raises == [raises |-> TRUE, result |-> EmptyDict]

Answers(parsed) == [raises |-> FALSE, result |-> parsed]

MONETARY_FIELDS ==
    {"amount", "balance", "translated_balance", "local_balance", "fx_rate",
     "rate", "debit", "credit", "gaap_balance", "ifrs_balance", "ifrs_adjustment"}

\* lines 175-183
MonetaryCols(hdrs) == MONETARY_FIELDS \cap {Lower(h) : h \in Range(hdrs)}

\* TriageDecision with the escalation tested before the duplicate hit
TriageDecisionEscalatesFirst(c, seen_rows, monetary_cols) ==
    LET severity == Get(c, "severity", "medium")
        field    == Lower(Get(c, "field", ""))
        row      == Get(c, "row_index", -1)
        ftype    == Get(c, "finding_type", "custom")
        rule_id  == Get(c, "rule_id", "")
    IN  IF severity = "info" /\ field \notin monetary_cols THEN "dismiss"
        ELSE IF ftype = "custom" /\ field \in {"account_name", "description", "name"}
             THEN "dismiss"
        ELSE IF severity \in {"critical", "high"} /\ field \in monetary_cols
             THEN "escalate"
        ELSE IF row \in DOMAIN seen_rows /\ seen_rows[row] # rule_id THEN "dismiss"
        ELSE "keep"

\* TriageDecision without the dismissal of generic keyword matches
TriageDecisionKeepsKeywords(c, seen_rows, monetary_cols) ==
    LET severity == Get(c, "severity", "medium")
        field    == Lower(Get(c, "field", ""))
        row      == Get(c, "row_index", -1)
        rule_id  == Get(c, "rule_id", "")
    IN  IF severity = "info" /\ field \notin monetary_cols THEN "dismiss"
        ELSE IF row \in DOMAIN seen_rows /\ seen_rows[row] # rule_id THEN "dismiss"
        ELSE IF severity \in {"critical", "high"} /\ field \in monetary_cols
             THEN "escalate"
        ELSE "keep"

\* lines 197-221: the decision on one candidate.  Every matched value of the
\* model is shorter than 20 characters.
TriageDecision(c, seen_rows, monetary_cols) ==
    LET severity == Get(c, "severity", "medium")
        field    == Lower(Get(c, "field", ""))
        row      == Get(c, "row_index", -1)
        ftype    == Get(c, "finding_type", "custom")
        rule_id  == Get(c, "rule_id", "")
    IN  IF severity = "info" /\ field \notin monetary_cols THEN "dismiss"
        ELSE IF ftype = "custom" /\ field \in {"account_name", "description", "name"}
             THEN "dismiss"
        ELSE IF row \in DOMAIN seen_rows /\ seen_rows[row] # rule_id THEN "dismiss"
        ELSE IF severity \in {"critical", "high"} /\ field \in monetary_cols
             THEN "escalate"
        ELSE "keep"

\* lines 189-232: the loop over the candidates, seen_rows carried along
RECURSIVE TriageLoop(_, _, _)
TriageLoop(cands, seen_rows, monetary_cols) ==
    IF cands = <<>> THEN <<>>
    ELSE LET step(c, rest, seen, decision) ==
                 LET row   == Get(c, "row_index", -1)
                     seen2 == IF decision # "dismiss" /\ row \notin DOMAIN seen
                              THEN (row :> Get(c, "rule_id", "")) @@ seen
                              ELSE seen
                 IN  <<DictSet(c, "triage_decision", decision)>>
                         \o TriageLoop(rest, seen2, monetary_cols)
         IN  CHOOSE verdicts \in
                 UNION {{step(c, rest, seen, decision) :
                            decision \in {TriageDecision(c, seen, monetary_cols)}} :
                        <<c, rest, seen>> \in {<<Head(cands), Tail(cands), seen_rows>>}} : TRUE

\* number of the entries of a list of dicts whose key k holds v
RECURSIVE CountWhere(_, _, _)
CountWhere(list, k, v) ==
    IF list = <<>> THEN 0
    ELSE (IF Get(Head(list), k, "") = v THEN 1 ELSE 0) + CountWhere(Tail(list), k, v)

\* lines 236-239: the f-string of the triage summary
TriageSummary(dismissed, total) ==
    "Heuristic triage: " \o ToString(dismissed) \o "/" \o ToString(total)
        \o " dismissed, " \o ToString(total - dismissed) \o " kept/escalated"

\* _triage_heuristic (lines 165-241)
triage_heuristic(state) ==
    CHOOSE upd \in
        {[triage_verdicts |-> verdicts,
          triage_summary  |-> TriageSummary(dismissed, Len(state.candidate_findings)),
          dismissed_count |-> dismissed] :
            <<verdicts, dismissed>> \in
                {<<v, CountWhere(v, "triage_decision", "dismiss")>> :
                    v \in {TriageLoop(state.candidate_findings, <<>>,
                                      MonetaryCols(state.csv_headers))}}} : TRUE

\* verdict_map.get(fid, {"decision": "keep", ...}) of lines 140 and 147: the
\* last verdict of the reply that names the finding
VerdictFor(verdicts, fid) ==
    IF \E i \in 1..Len(verdicts) : Get(verdicts[i], "finding_id", "") = fid
    THEN verdicts[CHOOSE i \in 1..Len(verdicts) :
                    /\ Get(verdicts[i], "finding_id", "") = fid
                    /\ \A j \in (i + 1)..Len(verdicts) :
                          Get(verdicts[j], "finding_id", "") # fid]
    ELSE [decision |-> "keep"]

\* _triage_with_llm (lines 105-162)
triage_with_llm(state, reply) ==
    IF reply.raises THEN triage_heuristic(state)
    ELSE LET verdicts == Get(reply.result, "verdicts", <<>>)
             cands    == state.candidate_findings
         IN  [triage_verdicts |->
                 [i \in 1..Len(cands) |->
                     DictSet(cands[i], "triage_decision",
                             Get(VerdictFor(verdicts, Get(cands[i], "finding_id", "")),
                                 "decision", "keep"))],
              triage_summary  |-> Get(reply.result, "summary", ""),
              dismissed_count |-> CountWhere(verdicts, "decision", "dismiss")]

\* triage_node (lines 83-102)
triage_node(state, llm, reply) ==
    IF state.candidate_findings = <<>>
    THEN [triage_verdicts |-> <<>>, triage_summary |-> "No candidates to triage.",
          dismissed_count |-> 0]
    ELSE IF llm THEN triage_with_llm(state, reply)
         ELSE triage_heuristic(state)

\* survivors of lines 257-260 and 253-256 (_graph.py)
IsSurvivor(v) == Get(v, "triage_decision", "") \in {"keep", "escalate"}

Survivors(verdicts) == SelectSeq(verdicts, IsSurvivor)

\* float(matched) on the matched values of the model, in units of 1e-3;
\* NotANumber when float raises ValueError
ParseFloat(matched) ==
    CASE matched = "-5"   -> Cell(-5000)
      [] matched = "5"    -> Cell(5000)
      [] matched = "7"    -> Cell(7000)
      [] matched = "1.1"  -> Cell(1100)
      [] matched = "1"    -> Cell(1000)
      [] matched = "83.8" -> Cell(83800)
      [] matched = "8"    -> Cell(8000)
      [] OTHER            -> NotANumber

\* "rate" in field.lower() or "fx" in field.lower(), on the column names of
\* the model
IsRateField(field) == Lower(field) \in {"fx_rate", "rate"}

\* _RATE_RANGES in dict order (EUR, GBP, JPY, CAD, AUD, CHF, CNY, INR, BRL,
\* MXN, SGD), in units of 1e-3
RATE_RANGES ==
    <<[lo |-> 800, hi |-> 1300], [lo |-> 1100, hi |-> 1600], [lo |-> 5, hi |-> 12],
      [lo |-> 650, hi |-> 850], [lo |-> 550, hi |-> 800], [lo |-> 950, hi |-> 1250],
      [lo |-> 120, hi |-> 180], [lo |-> 10, hi |-> 15], [lo |-> 150, hi |-> 250],
      [lo |-> 40, hi |-> 70], [lo |-> 700, hi |-> 800]>>

\* numeric_val > 10.0 or numeric_val < 0.001
UnusualRate(val) == val > 10000 \/ val < 1

\* index of the range at which the loop of lines 377-392 breaks, 0 when the
\* value lies in no range
BreakAt(val) ==
    IF \E k \in 1..Len(RATE_RANGES) : RATE_RANGES[k].lo <= val /\ val <= RATE_RANGES[k].hi
    THEN CHOOSE k \in 1..Len(RATE_RANGES) :
           /\ RATE_RANGES[k].lo <= val /\ val <= RATE_RANGES[k].hi
           /\ \A j \in 1..(k - 1) : ~(RATE_RANGES[j].lo <= val /\ val <= RATE_RANGES[j].hi)
    ELSE 0

\* confidence after n passes through the elif of lines 382-384: min(1.0, c + 0.2)
\* applied n times
Boosted(confidence, n) ==
    IF n = 0 THEN confidence ELSE Min2(10000, confidence + 2000 * n)

\* lines 377-392: the loop over the currency ranges for one survivor.  Every
\* range before the break that does not hold the value takes the elif when
\* the value is unusual, raising the confidence and appending a check.
RateLoop(val, confidence, s) ==
    LET k      == BreakAt(val)
        passes == IF k = 0 THEN Len(RATE_RANGES) ELSE k - 1
        boosts == IF UnusualRate(val) THEN passes ELSE 0
        before == Boosted(confidence, boosts)
    IN  [confidence |-> IF k = 0 THEN before ELSE Max2(3000, before - 2000),
         checks     |-> [i \in 1..boosts |->
                            [row_index    |-> Get(s, "row_index", -1),
                             field        |-> Get(s, "field", ""),
                             value        |-> Get(s, "matched_value", ""),
                             anomaly_type |-> "unusual_rate",
                             confidence   |-> Boosted(confidence, i)]]]

\* lines 363-394: the confidence of one survivor after the escalation boost
\* and the rate check, and the numeric checks it adds
VerifyOne(s) ==
    LET c0     == Get(s, "confidence", 5000)
        c1     == IF Get(s, "triage_decision", "") = "escalate"
                  THEN Min2(10000, c0 + 1000) ELSE c0
        parsed == ParseFloat(Get(s, "matched_value", ""))
    IN  IF parsed.num /\ IsRateField(Get(s, "field", ""))
        THEN RateLoop(parsed.val, c1, s)
        ELSE [confidence |-> c1, checks |-> <<>>]

RECURSIVE Concat(_)
Concat(lists) == IF lists = <<>> THEN <<>> ELSE Head(lists) \o Concat(Tail(lists))

\* _verify_heuristic (lines 342-410): the loop over the survivors; a survivor
\* is kept when its confidence is at least 0.3
verify_heuristic(state, survivors) ==
    LET out(list, ones) ==
            LET kept(i) == ones[i].confidence >= 3000
            IN  CHOOSE upd \in
                    {[verified_findings |->
                         [k \in 1..Len(picked) |->
                             DictSet(DictSet(list[picked[k]], "verified", TRUE),
                                     "adjusted_confidence", ones[picked[k]].confidence)],
                      numeric_checks |-> Concat([i \in 1..Len(list) |-> ones[i].checks]),
                      new_findings   |-> <<>>] :
                        picked \in {SelectSeq([i \in 1..Len(list) |-> i], kept)}} : TRUE
    IN  CHOOSE upd \in
            UNION {{out(list, ones) :
                       ones \in {[i \in 1..Len(list) |-> VerifyOne(list[i])]}} :
                   list \in {survivors}} : TRUE

\* [v for v in verified if v.get("verified", False)]
IsVerified(v) == Get(v, "verified", FALSE)

OnlyVerified(list) == SelectSeq(list, IsVerified)

\* _verify_with_llm with an except branch that returns empty lists
VerifyWithLlmRaiseEmpty(state, survivors, reply) ==
    IF reply.raises
    THEN [verified_findings |-> <<>>, numeric_checks |-> <<>>, new_findings |-> <<>>]
    ELSE [verified_findings |->
              OnlyVerified(Get(reply.result, "verified_findings", <<>>)),
          numeric_checks |-> Get(reply.result, "numeric_checks", <<>>),
          new_findings   |-> Get(reply.result, "new_findings", <<>>)]

\* _verify_with_llm (lines 277-339)
verify_with_llm(state, survivors, reply) ==
    IF reply.raises THEN verify_heuristic(state, survivors)
    ELSE [verified_findings |->
              OnlyVerified(Get(reply.result, "verified_findings", <<>>)),
          numeric_checks |-> Get(reply.result, "numeric_checks", <<>>),
          new_findings   |-> Get(reply.result, "new_findings", <<>>)]

\* verify_node (lines 247-274)
verify_node(state, llm, reply) ==
    LET survivors == Survivors(state.triage_verdicts)
    IN  IF llm THEN verify_with_llm(state, survivors, reply)
        ELSE IF survivors # <<>> THEN verify_heuristic(state, survivors)
        ELSE [verified_findings |-> <<>>, numeric_checks |-> <<>>,
              new_findings |-> <<>>]

\* The key the loops of _reconcile_heuristic look up in seen_keys
VerifiedKey(v) ==
    <<Get(v, "account", ""), Get(v, "row_index", -1), Get(v, "finding_type", "")>>

NumericKey(nc) == <<"", Get(nc, "row_index", -1), Get(nc, "anomaly_type", "")>>

\* The entries a loop of the form
\*     if key not in seen_keys: seen_keys.add(key); all_findings.append(...)
\* appends, keys[i] being the key of list[i]: those whose key is not in
\* seen_keys when the loop starts and is the key of no entry before them
FirstSeen(list, keys, seen_keys) ==
    LET keep(i) == /\ keys[i] \notin seen_keys
                   /\ \A j \in 1..(i - 1) : keys[j] # keys[i]
    IN  CHOOSE kept \in
            {[k \in 1..Len(picked) |-> list[picked[k]]] :
                picked \in {SelectSeq([i \in 1..Len(list) |-> i], keep)}} : TRUE

\* lines 514-525
VerifiedEntry(v) ==
    [finding_id   |-> Get(v, "finding_id", ""),
     finding_type |-> Get(v, "finding_type", "custom"),
     severity     |-> Get(v, "severity", "medium"),
     account      |-> Get(v, "account", ""),
     row_index    |-> Get(v, "row_index", -1),
     field        |-> Get(v, "field", ""),
     confidence   |-> Get(v, "adjusted_confidence", Get(v, "confidence", 5000)),
     source       |-> "combined"]

\* lines 532-543
NumericEntry(nc) ==
    [finding_id   |-> "",
     finding_type |-> Get(nc, "anomaly_type", "custom"),
     severity     |-> IF Get(nc, "confidence", 0) > 7000 THEN "high" ELSE "medium",
     account      |-> "",
     row_index    |-> Get(nc, "row_index", -1),
     field        |-> Get(nc, "field", ""),
     confidence   |-> Get(nc, "confidence", 5000),
     source       |-> "ai"]

\* lines 550-561
NovelEntry(nf) ==
    [finding_id   |-> "",
     finding_type |-> Get(nf, "finding_type", "custom"),
     severity     |-> Get(nf, "severity", "medium"),
     account      |-> Get(nf, "account", ""),
     row_index    |-> Get(nf, "row_index", -1),
     field        |-> Get(nf, "field", ""),
     confidence   |-> Get(nf, "confidence", 5000),
     source       |-> "ai"]

\* lines 504-561: verified findings first, then numeric checks, then novel
\* findings, each loop adding its keys to the same seen_keys
MergeAll(verified, numeric_checks, new_findings) ==
    LET keys(list, Kind) ==
            [i \in 1..Len(list) |->
                IF Kind = "numeric" THEN NumericKey(list[i]) ELSE VerifiedKey(list[i])]
        entries(p1, p2, p3) ==
            [i \in 1..Len(p1) |-> VerifiedEntry(p1[i])]
                \o [i \in 1..Len(p2) |-> NumericEntry(p2[i])]
                \o [i \in 1..Len(p3) |-> NovelEntry(p3[i])]
    IN  CHOOSE merged \in
            {entries(FirstSeen(v, k1, {}),
                     FirstSeen(n, k2, Range(k1)),
                     FirstSeen(w, k3, Range(k1) \cup Range(k2))) :
                <<v, n, w, k1, k2, k3>> \in
                    {<<verified, numeric_checks, new_findings,
                       keys(verified, "verified"), keys(numeric_checks, "numeric"),
                       keys(new_findings, "verified")>>}} : TRUE

\* _SEV_ORDER.get(severity, 2)
SEV_ORDER(severity) ==
    CASE severity = "critical" -> 0
      [] severity = "high"     -> 1
      [] severity = "medium"   -> 2
      [] severity = "low"      -> 3
      [] severity = "info"     -> 4
      [] OTHER                 -> 2

\* the sort key of lines 566-569 orders a strictly before b
SortsBefore(a, b) ==
    LET sa == SEV_ORDER(Get(a, "severity", "medium"))
        sb == SEV_ORDER(Get(b, "severity", "medium"))
    IN  \/ sa < sb
        \/ sa = sb /\ Get(a, "confidence", 0) > Get(b, "confidence", 0)

\* list.sort is stable: entry i comes after the entries that sort before it
\* and after the earlier entries it does not sort before
SortFindings(list) ==
    LET rank(l, i) == 1 + Cardinality({j \in 1..Len(l) :
                            \/ SortsBefore(l[j], l[i])
                            \/ j < i /\ ~SortsBefore(l[i], l[j])})
        sorted(l)  == [k \in 1..Len(l) |-> l[CHOOSE i \in 1..Len(l) : rank(l, i) = k]]
    IN  CHOOSE s \in {sorted(l) : l \in {list}} : TRUE

\* lines 574-578: the f-string of the reconciliation summary, up to the
\* noise reduction percentage
ReconciliationSummary(total, dismissed, verified_count) ==
    "Processed " \o ToString(total) \o " candidates: " \o ToString(dismissed)
        \o " dismissed by triage, " \o ToString(verified_count)
        \o " verified findings. "

\* _reconcile_heuristic (lines 492-587); the evidence text and kb_node_ids of
\* an entry are not followed
reconcile_heuristic(state) ==
    CHOOSE upd \in
        {[final_findings |-> all_findings,
          reconciliation_summary |->
              ReconciliationSummary(Len(state.candidate_findings),
                                    Get(state, "dismissed_count", 0),
                                    Len(all_findings)),
          converged      |-> TRUE] :
            all_findings \in {SortFindings(MergeAll(state.verified_findings,
                                                    state.numeric_checks,
                                                    state.new_findings))}} : TRUE

\* reconcile_with_llm that takes converged from the reply of the backend
ReconcileWithLlmTakesConverged(state, reply) ==
    IF reply.raises THEN reconcile_heuristic(state)
    ELSE [final_findings |-> Get(reply.result, "final_findings", <<>>),
          reconciliation_summary |-> Get(reply.result, "summary", ""),
          converged      |-> Get(reply.result, "converged", FALSE)]

\* _reconcile_with_llm (lines 435-489)
reconcile_with_llm(state, reply) ==
    IF reply.raises THEN reconcile_heuristic(state)
    ELSE [final_findings |-> Get(reply.result, "final_findings", <<>>),
          reconciliation_summary |-> Get(reply.result, "summary", ""),
          converged      |-> TRUE]

\* reconcile_node (lines 416-432)
reconcile_node(state, llm, reply) ==
    IF llm THEN reconcile_with_llm(state, reply) ELSE reconcile_heuristic(state)

\* should_continue without the test of converged
ShouldContinueIgnoresConverged(state) ==
    IF Get(state, "error", "") # "" THEN "end"
    ELSE IF Get(state, "round_number", 1) >= Get(state, "max_rounds", 2) THEN "end"
    ELSE "continue"

\* should_continue that ends only when round_number is past max_rounds
ShouldContinueOffByOne(state) ==
    IF Get(state, "converged", FALSE) THEN "end"
    ELSE IF Get(state, "error", "") # "" THEN "end"
    ELSE IF Get(state, "round_number", 1) > Get(state, "max_rounds", 2) THEN "end"
    ELSE "continue"

\* _should_continue (_graph.py 57-67)
should_continue(state) ==
    IF Get(state, "converged", FALSE) THEN "end"
    ELSE IF Get(state, "error", "") # "" THEN "end"
    ELSE IF Get(state, "round_number", 1) >= Get(state, "max_rounds", 2) THEN "end"
    ELSE "continue"

\* state.update(result) and the merge of a node's return into the graph state
Update(state, upd) == upd @@ state

\* initial_state of run_verification_graph (lines 155-176) and of
\* _run_heuristic_pipeline (lines 225-246)
InitialState(candidates, hdrs, sample_rows, max_rounds) ==
    [candidate_findings |-> candidates,
     csv_headers        |-> hdrs,
     csv_sample_rows    |-> sample_rows,
     triage_verdicts    |-> <<>>,
     triage_summary     |-> "",
     dismissed_count    |-> 0,
     verified_findings  |-> <<>>,
     numeric_checks     |-> <<>>,
     new_findings       |-> <<>>,
     final_findings     |-> <<>>,
     reconciliation_summary |-> "",
     round_number       |-> 1,
     max_rounds         |-> max_rounds,
     converged          |-> FALSE,
     error              |-> "",
     pipeline           |-> ""]

\* _run_heuristic_pipeline (lines 205-278)
run_heuristic_pipeline(candidates, hdrs, sample_rows) ==
    CHOOSE final \in
        {Update(s3, [new_findings |-> <<>>, pipeline |-> "heuristic"]) :
            s3 \in {Update(s2, reconcile_heuristic(s2)) :
            s2 \in {Update(s1, verify_heuristic(s1, Survivors(s1.triage_verdicts))) :
            s1 \in {Update(s0, triage_heuristic(s0)) :
            s0 \in {InitialState(candidates, hdrs, sample_rows, 1)}}}}} : TRUE

(***************************************************************************)
(* SpecWorkflow: run_verification_graph on the candidates of the regex     *)
(* pass of detect_and_verify, with the reasoning backend present or not    *)
(* and, when present, raising or answering at each call.                   *)
(***************************************************************************)
MaxWfRows == 2

WfRules ==
    <<[rule_id |-> "W1", pattern |-> PatNegative, field_targets |-> <<"amount", "fx_rate">>,
       finding_type |-> "sign_reversal", severity |-> "high", confidence |-> 9000],
      [rule_id |-> "W2", pattern |-> PatCash, field_targets |-> <<>>,
       finding_type |-> "custom", severity |-> "info", confidence |-> 5000],
      [rule_id |-> "W3", pattern |-> PatRate, field_targets |-> <<"fx_rate">>,
       finding_type |-> "formula_anomaly", severity |-> "medium", confidence |-> 7000],
      [rule_id |-> "W4", pattern |-> PatCash, field_targets |-> <<"name">>,
       finding_type |-> "custom", severity |-> "medium", confidence |-> 6000],
      [rule_id |-> "W5", pattern |-> PatDigit, field_targets |-> <<"amount", "fx_rate">>,
       finding_type |-> "balance_mismatch", severity |-> "medium", confidence |-> 7000]>>

WfHeaderChoices == {<<"account", "amount">>, <<"name", "fx_rate">>}

\* detect_and_verify, lines 442-446 (_graph.py): the regex pass
RECURSIVE RegexPass(_, _, _, _, _)
RegexPass(comp, rows, hdrs, i, found) ==
    IF i > Len(rows) \/ Len(found) >= 500 THEN found
    ELSE RegexPass(comp, rows, hdrs, i + 1,
                   found \o check_row(i - 1, rows[i], hdrs, comp))

\* list[:1]
FirstOf(list) == IF list = <<>> THEN <<>> ELSE <<Head(list)>>

\* The verdicts of a triage reply that gives every candidate one decision
SameVerdicts(cands, decision) ==
    [i \in 1..Len(cands) |->
        [finding_id |-> Get(cands[i], "finding_id", ""), decision |-> decision]]

\* Replies of the reasoning backend to the triage prompt
TriageReplies(state) ==
    LET cands == state.candidate_findings
    IN  {Raises,
         Answers(EmptyDict),
         Answers([verdicts |-> SameVerdicts(cands, "dismiss")]),
         Answers([verdicts |-> SameVerdicts(cands, "escalate")]),
         Answers([verdicts |-> SameVerdicts(FirstOf(cands), "dismiss")]),
         Answers([verdicts |-> <<[finding_id |-> "unknown", decision |-> "dismiss"]>>])}

\* The survivors as a backend that verifies each one echoes them
Echo(survivors, conf) ==
    [i \in 1..Len(survivors) |->
        DictSet(DictSet(survivors[i], "verified", TRUE), "adjusted_confidence",
                IF conf = 0 THEN Get(survivors[i], "confidence", 5000) ELSE conf)]

NovelFinding ==
    [finding_type |-> "rounding_discrepancy", severity |-> "low", account |-> "cash",
     row_index |-> 0, field |-> "amount", evidence |-> "novel", confidence |-> 6000]

BackendCheck ==
    [row_index |-> 0, field |-> "fx_rate", value |-> "83.8",
     anomaly_type |-> "unusual_rate", confidence |-> 8000]

\* Replies of the reasoning backend to the verify prompt
VerifyReplies(state) ==
    LET survivors == Survivors(state.triage_verdicts)
    IN  {Raises,
         Answers(EmptyDict),
         Answers([verified_findings |-> Echo(survivors, 0)]),
         Answers([verified_findings |->
                     [i \in 1..Len(survivors) |->
                         DictSet(survivors[i], "verified", i = 1)]]),
         Answers([verified_findings |-> Echo(survivors, 0) \o Echo(survivors, 0),
                  numeric_checks    |-> <<BackendCheck>>,
                  new_findings      |-> <<NovelFinding, NovelFinding>>]),
         Answers([verified_findings |-> Echo(survivors, 12000)])}

\* Replies of the reasoning backend to the reconcile prompt
ReconcileReplies(state) ==
    UNION {{Raises,
            Answers(EmptyDict),
            Answers([final_findings |-> merged]),
            Answers([final_findings |-> merged \o FirstOf(merged)]),
            Answers([final_findings |->
                        [i \in 1..Len(merged) |-> DictSet(merged[i], "confidence", 17000)]])} :
           merged \in {reconcile_heuristic(state).final_findings}}

InitWorkflow ==
    /\ pc = "workflow"
    /\ rules = WfRules
    /\ headers \in WfHeaderChoices
    /\ min_confidence = 0
    /\ compiled = compile_rules(rules, headers, min_confidence)
    /\ \E n \in 1..MaxWfRows : \E rows \in [1..n -> Rows(headers)] :
          /\ total_rows = n
          /\ raw_findings = RegexPass(compiled, rows, headers, 1, <<>>)
          /\ wf = [csv_sample_rows |-> rows]
    /\ raw_count = Len(raw_findings)
    /\ early_exit = FALSE /\ row_idx = 0 /\ rows_scanned = 0 /\ sprt = NoSPRT
    /\ monitor_seen = <<>> /\ result = <<>>
    /\ FbIdle /\ NumIdle /\ RestIdle
    /\ wf_node = "start"
    /\ llm_available \in BOOLEAN
    /\ langgraph_available \in BOOLEAN
    /\ wf_trace = <<>>
    /\ wf_raised = <<>>

\* run_verification_graph up to graph.ainvoke (lines 152-179)
StartGraph(max_rounds) ==
    /\ wf_node = "start"
    /\ langgraph_available
    /\ wf' = InitialState(ModelDump(raw_findings), headers, wf.csv_sample_rows, max_rounds)
    /\ wf_node' = "triage"
    /\ UNCHANGED <<scanVars, fbVars, numVars, restVars, llm_available, langgraph_available,
                   wf_trace, wf_raised>>

\* run_verification_graph without LangGraph (lines 143-150)
RunHeuristicPipeline ==
    /\ wf_node = "start"
    /\ ~langgraph_available
    /\ wf' = run_heuristic_pipeline(ModelDump(raw_findings), headers, wf.csv_sample_rows)
    /\ wf_node' = "done"
    /\ wf_trace' = <<"triage", "verify", "reconcile">>
    /\ wf_raised' = <<FALSE, FALSE, FALSE>>
    /\ UNCHANGED <<scanVars, fbVars, numVars, restVars, llm_available, langgraph_available>>

\* Length of wf_trace up to which a further round is followed
MaxWfSteps == 3

\* The backend is called only when a client was created
RepliesAt(replies) == IF llm_available THEN replies ELSE {Raises}

TriageNode ==
    /\ wf_node = "triage"
    /\ Len(wf_trace) < MaxWfSteps
    /\ \E reply \in RepliesAt(TriageReplies(wf)) :
          /\ wf' = Update(wf, triage_node(wf, llm_available, reply))
          /\ wf_raised' = Append(wf_raised, /\ llm_available
                                            /\ wf.candidate_findings # <<>>
                                            /\ reply.raises)
    /\ wf_node' = "verify"
    /\ wf_trace' = Append(wf_trace, "triage")
    /\ UNCHANGED <<scanVars, fbVars, numVars, restVars, llm_available, langgraph_available>>

VerifyNode ==
    /\ wf_node = "verify"
    /\ \E reply \in RepliesAt(VerifyReplies(wf)) :
          /\ wf' = Update(wf, verify_node(wf, llm_available, reply))
          /\ wf_raised' = Append(wf_raised, llm_available /\ reply.raises)
    /\ wf_node' = "reconcile"
    /\ wf_trace' = Append(wf_trace, "verify")
    /\ UNCHANGED <<scanVars, fbVars, numVars, restVars, llm_available, langgraph_available>>

\* reconcile_node, the conditional edge after it, and the return of
\* run_verification_graph when the edge ends the graph (lines 180-194)
ReconcileNode ==
    /\ wf_node = "reconcile"
    /\ \E reply \in RepliesAt(ReconcileReplies(wf)) :
          /\ \E st \in {Update(wf, reconcile_node(wf, llm_available, reply))} :
                 IF should_continue(st) = "continue"
                 THEN wf' = st /\ wf_node' = "triage"
                 ELSE wf' = Update(st, [pipeline |-> "langgraph"]) /\ wf_node' = "done"
          /\ wf_raised' = Append(wf_raised, llm_available /\ reply.raises)
    /\ wf_trace' = Append(wf_trace, "reconcile")
    /\ UNCHANGED <<scanVars, fbVars, numVars, restVars, llm_available, langgraph_available>>

NextWorkflow ==
    \/ \E max_rounds \in {1, 2} : StartGraph(max_rounds)
    \/ RunHeuristicPipeline
    \/ TriageNode
    \/ VerifyNode
    \/ ReconcileNode

SpecWorkflow == InitWorkflow /\ [][NextWorkflow]_vars

\* The event loop runs the started graph to its end, and a call of the
\* reasoning backend returns or raises
SpecWorkflowFair == SpecWorkflow /\ WF_vars(NextWorkflow)

(***************************************************************************)
(* Properties of the verification workflow (SpecWorkflow)                  *)
(***************************************************************************)
\* The (account, row_index, finding_type) key of a final finding
FinalKey(f) ==
    <<Get(f, "account", ""), Get(f, "row_index", -1), Get(f, "finding_type", "custom")>>

NoDuplicateKeys(final) ==
    \A i, j \in 1..Len(final) : i # j => FinalKey(final[i]) # FinalKey(final[j])

\* C7: when the workflow is over, final_findings holds no two entries with the
\* same (account, row_index, finding_type), whether the Reconcile stage ran on
\* the reasoning backend or on the heuristic.
C7_NoDuplicateFinalKeys ==
    wf_node = "done" => NoDuplicateKeys(wf.final_findings)

\* Rounds of the workflow so far: executions of the Reconcile node
RoundsRun == Len(SelectSeq(wf_trace, LAMBDA n : n = "reconcile"))

\* C12: whatever the backend does at each stage (answer, raise, empty or
\* undecodable answer), the workflow reaches its end and stays there, having
\* run at most max_rounds rounds.
C12_WorkflowTerminates ==
    <>[](wf_node = "done" /\ RoundsRun <= wf.max_rounds)

\* A run on the graph that was allowed two rounds ended after one
C12_Witness ==
    /\ wf_node = "done"
    /\ llm_available
    /\ wf.pipeline = "langgraph"
    /\ wf.max_rounds = 2
    /\ wf_trace = <<"triage", "verify", "reconcile">>

\* The node that has just run called the backend and the call raised
JustRaised == wf_raised' # wf_raised /\ wf_raised'[Len(wf_raised')]

\* A stage whose backend call raised leaves the state its heuristic leaves
RaiseFallsBack ==
    /\ (wf_node = "triage" /\ JustRaised) =>
           /\ wf' = Update(wf, triage_heuristic(wf))
           /\ wf_node' = "verify"
    /\ (wf_node = "verify" /\ JustRaised) =>
           /\ wf' = Update(wf, verify_heuristic(wf, Survivors(wf.triage_verdicts)))
           /\ wf_node' = "reconcile"
    /\ (wf_node = "reconcile" /\ JustRaised) =>
           /\ wf' = Update(Update(wf, reconcile_heuristic(wf)), [pipeline |-> "langgraph"])
           /\ wf_node' = "done"

SomeCallRaised == \E i \in 1..Len(wf_raised) : wf_raised[i]

\* run_verification_graph has returned the state of a graph run to its end
GraphReturned ==
    /\ wf_node = "done"
    /\ wf.pipeline = "langgraph"
    /\ wf_trace = <<"triage", "verify", "reconcile">>

CollectedEntries(state) ==
    [i \in 1..Len(state.verified_findings) |-> VerifiedEntry(state.verified_findings[i])]
        \o [i \in 1..Len(state.numeric_checks) |-> NumericEntry(state.numeric_checks[i])]
        \o [i \in 1..Len(state.new_findings) |-> NovelEntry(state.new_findings[i])]

\* The Reconcile stage of the finished run was the heuristic
HeuristicReconcile ==
    /\ wf_node = "done"
    /\ wf_raised = <<>> \/ ~llm_available \/ wf_raised[Len(wf_raised)]

\* C19: of the entries with one (account, row_index, finding_type) key among
\* verified findings, numeric checks and novel findings, the heuristic
\* Reconcile keeps one whose confidence is the highest of them.
C19_KeepsHigherConfidence ==
    HeuristicReconcile =>
        \A e \in Range(CollectedEntries(wf)) :
            \E f \in Range(wf.final_findings) :
                /\ FinalKey(f) = FinalKey(e)
                /\ f.confidence >= e.confidence

\* C1: every finding of a result of detect_grounded and every final finding of
\* the verification workflow has a confidence between 0.0 and 1.0.
C1_ConfidenceInUnitInterval ==
    /\ pc = "done" =>
          \A i \in 1..Len(result) :
              0 <= result[i].confidence /\ result[i].confidence <= 10000
    /\ wf_node = "done" =>
          \A i \in 1..Len(wf.final_findings) :
              LET c == Get(wf.final_findings[i], "confidence", 5000)
              IN  0 <= c /\ c <= 10000

(***************************************************************************)
(* SpecWriters: several processes in record_feedback on one ledger file.   *)
(* record_feedback takes no lock (lines 77-83): each process opens the     *)
(* file in append mode and its buffered text is flushed by write(2) calls  *)
(* when the file is closed.  A write(2) call may accept only part of the   *)
(* bytes it is given; the buffered writer then writes the rest with a      *)
(* further call.  The text of a record is followed here as two halves, the *)
(* second ending with the newline.                                         *)
(***************************************************************************)
MaxWriters == 2

Procs == 1..MaxWriters

\* The halves of the line process p writes
Half(p, part) == [w |-> p, part |-> part]

NotStarted == [at |-> "idle", line |-> NoMetadata, written |-> 0]

\* record_feedback up to open(fb_path, "a") and f.write(...) into the buffer
\* (lines 66-83)
BeginRecord(p, confirmed, metadata) ==
    /\ pc = "writers"
    /\ writers[p].at = "idle"
    /\ writers' = [writers EXCEPT ![p] =
                      [at |-> "open", written |-> 0,
                       line |-> FeedbackLine(FindingIds[p], confirmed, metadata)]]
    /\ UNCHANGED <<ledger_file, scanVars, fbVars, numVars, wfVars, batchVars, dvVars, adjVars, callVars>>

\* the flush at close: one write(2) call that takes every byte left
WriteAll(p) ==
    /\ writers[p].at = "open"
    /\ ledger_file' = ledger_file \o
                        [i \in 1..(2 - writers[p].written) |->
                            Half(p, writers[p].written + i)]
    /\ writers' = [writers EXCEPT ![p].at = "closed", ![p].written = 2]
    /\ UNCHANGED <<scanVars, fbVars, numVars, wfVars, batchVars, dvVars, adjVars, callVars>>

\* a write(2) call that takes only the first half of the line
WriteShort(p) ==
    /\ writers[p].at = "open"
    /\ writers[p].written = 0
    /\ ledger_file' = Append(ledger_file, Half(p, 1))
    /\ writers' = [writers EXCEPT ![p].written = 1]
    /\ UNCHANGED <<scanVars, fbVars, numVars, wfVars, batchVars, dvVars, adjVars, callVars>>

\* for line in f (lines 268-271): the file cut after each newline
LineEnds(file) ==
    SelectSeq([i \in 1..Len(file) |-> i], LAMBDA i : file[i].part = 2)

FileLines(file) ==
    LET ends == LineEnds(file)
    IN  [k \in 1..Len(ends) |->
            SubSeq(file, IF k = 1 THEN 1 ELSE ends[k - 1] + 1, ends[k])]

\* json.loads(line) (lines 275-278): the text decodes to the record of p when
\* it is the two halves of p's line and nothing else
DecodeLine(text, ws) ==
    IF Len(text) = 2 /\ text[1] = Half(text[1].w, 1) /\ text[2] = Half(text[1].w, 2)
    THEN ws[text[1].w].line
    ELSE [json |-> FALSE, finding_id |-> "", action |-> "", rule_id |-> "",
          finding_type |-> ""]

\* _load_feedback on the file as it is
LoadFile(file, ws) ==
    LET texts == FileLines(file)
    IN  load_feedback([k \in 1..Len(texts) |-> DecodeLine(texts[k], ws)])

InitWriters ==
    /\ pc = "writers"
    /\ ledger_file = <<>>
    /\ writers = [p \in Procs |-> NotStarted]
    /\ ScanIdle /\ FbIdle /\ NumIdle /\ WfIdle /\ BatchIdle /\ DvIdle /\ AdjIdle
    /\ CallIdle

NextWriters ==
    \/ \E p \in Procs, confirmed \in BOOLEAN, metadata \in Metadatas :
          BeginRecord(p, confirmed, metadata)
    \/ \E p \in Procs : WriteAll(p)
    \/ \E p \in Procs : WriteShort(p)

SpecWriters == InitWriters /\ [][NextWriters]_vars

\* C11: when every process has returned from record_feedback, the ledger holds
\* the record of each process as one complete line: loading the file yields
\* exactly one record per process, the one that process wrote.
C11_EachRecordOneCompleteLine ==
    (\A p \in Procs : writers[p].at = "closed") =>
        LET loaded == LoadFile(ledger_file, writers)
        IN  /\ Len(loaded) = MaxWriters
            /\ \A p \in Procs :
                  \E k \in 1..Len(loaded) : loaded[k] = writers[p].line


(***************************************************************************)
(* SpecBatch: detect_grounded_batch (_grounded.py 330-452) on a directory  *)
(* of up to MaxBatchFiles matching files; what detect_grounded does on a   *)
(* file is one of FileOutcomes.                                            *)
(***************************************************************************)
MaxBatchFiles == 3

\* What the call of detect_grounded on a file gives: a result with an error
\* (lines 168-172), an exception, or a result with a summary
FileOutcomes ==
    {[kind |-> "error", error |-> "File not found"],
     [kind |-> "raises", error |-> "Permission denied"],
     [kind |-> "result", summary |-> [total_findings |-> 0, total_rows |-> 0]],
     [kind |-> "result", summary |-> [total_findings |-> 2, total_rows |-> 3]]}

\* list[:10]
FirstTen(list) == SubSeq(list, 1, Min2(Len(list), 10))

InitBatch ==
    /\ pc = "batch"
    /\ ScanIdle /\ FbIdle /\ NumIdle /\ WfIdle /\ WrIdle /\ DvIdle /\ AdjIdle
    /\ CallIdle
    /\ \E exists \in BOOLEAN : \E n \in 0..MaxBatchFiles :
          batch = [at |-> "start", dir_exists |-> exists,
                   total |-> IF exists THEN n ELSE 0]

\* lines 360-391: the directory test, the discovery of the files, the locals
BatchStart ==
    /\ batch.at = "start"
    /\ batch' =
          IF ~batch.dir_exists
          THEN [at |-> "done", total |-> 0, out |-> [error |-> "Directory not found"]]
          ELSE IF batch.total = 0
          THEN [at |-> "done", total |-> 0,
                out |-> [summary |-> [total_files |-> 0], results |-> <<>>,
                         errors |-> <<>>]]
          ELSE [at |-> "loop", total |-> batch.total, i |-> 0,
                completed |-> <<>>, errors |-> <<>>,
                total_findings |-> 0, total_rows |-> 0]
    /\ UNCHANGED <<scanVars, fbVars, numVars, wfVars, wrVars, dvVars, adjVars, callVars>>

\* BatchFile with the loop left at the first exception
BatchFileAbortsOnRaise ==
    /\ batch.at = "loop"
    /\ batch.i < batch.total
    /\ \E o \in FileOutcomes :
          LET file == batch.i + 1
          IN  batch' =
                CASE o.kind = "raises" ->
                       [batch EXCEPT !.i = batch.total,
                                     !.errors = Append(@, [file_path |-> file,
                                                           error |-> o.error])]
                  [] o.kind = "error" ->
                       [batch EXCEPT !.i = file,
                                     !.errors = Append(@, [file_path |-> file,
                                                           error |-> o.error])]
                  [] o.kind = "result" ->
                       [batch EXCEPT !.i = file,
                                     !.total_findings = @ + o.summary.total_findings,
                                     !.total_rows = @ + o.summary.total_rows,
                                     !.completed =
                                         Append(@, [file_path |-> file,
                                                    total_findings |-> o.summary.total_findings,
                                                    total_rows |-> o.summary.total_rows])]
    /\ UNCHANGED <<scanVars, fbVars, numVars, wfVars, wrVars, dvVars, adjVars, callVars>>

\* One iteration of the loop of lines 393-435 on file number i + 1
BatchFile ==
    /\ batch.at = "loop"
    /\ batch.i < batch.total
    /\ \E o \in FileOutcomes :
          LET file == batch.i + 1
          IN  batch' =
                CASE o.kind \in {"raises", "error"} ->
                       [batch EXCEPT !.i = file,
                                     !.errors = Append(@, [file_path |-> file,
                                                           error |-> o.error])]
                  [] o.kind = "result" ->
                       [batch EXCEPT !.i = file,
                                     !.total_findings = @ + o.summary.total_findings,
                                     !.total_rows = @ + o.summary.total_rows,
                                     !.completed =
                                         Append(@, [file_path |-> file,
                                                    total_findings |-> o.summary.total_findings,
                                                    total_rows |-> o.summary.total_rows])]
    /\ UNCHANGED <<scanVars, fbVars, numVars, wfVars, wrVars, dvVars, adjVars, callVars>>

\* lines 437-462: the summary and the return
BatchReturn ==
    /\ batch.at = "loop"
    /\ batch.i >= batch.total
    /\ batch' = [out |-> [summary |-> [total_files |-> batch.total,
                                       completed |-> Len(batch.completed),
                                       failed |-> Len(batch.errors),
                                       total_findings |-> batch.total_findings,
                                       total_rows_scanned |-> batch.total_rows],
                          results |-> FirstTen(batch.completed),
                          errors |-> FirstTen(batch.errors)]]
                 @@ [batch EXCEPT !.at = "done"]
    /\ UNCHANGED <<scanVars, fbVars, numVars, wfVars, wrVars, dvVars, adjVars, callVars>>

NextBatch == BatchStart \/ BatchFile \/ BatchReturn

SpecBatch == InitBatch /\ [][NextBatch]_vars

\* The files of the batch that are in the list
FilesIn(list) == {list[k].file_path : k \in 1..Len(list)}

\* C15: in the loop of detect_grounded_batch every file read so far is once in
\* completed or once in errors, a file that failed does not keep the next
\* file from being processed, and the summary returned has
\* completed + failed = total_files.
C15_FailedFileDoesNotStopBatch ==
    batch.at \in {"loop", "done"} /\ batch.total > 0 =>
        /\ Len(batch.completed) + Len(batch.errors) = batch.i
        /\ FilesIn(batch.completed) \cup FilesIn(batch.errors) = 1..batch.i
        /\ FilesIn(batch.completed) \cap FilesIn(batch.errors) = {}
        /\ (batch.at = "loop" /\ batch.i < batch.total) => ENABLED BatchFile
        /\ batch.at = "done" =>
               /\ batch.i = batch.total
               /\ batch.out.summary.total_files = batch.total
               /\ batch.out.summary.completed + batch.out.summary.failed
                      = batch.out.summary.total_files

\* The first file raised, the second returned an error, the third completed
C15_Witness ==
    /\ batch.at = "done" /\ batch.total = 3
    /\ batch.errors = <<[file_path |-> 1, error |-> "Permission denied"],
                        [file_path |-> 2, error |-> "File not found"]>>
    /\ FilesIn(batch.completed) = {3}


(***************************************************************************)
(* SpecVerify: detect_and_verify (_graph.py 395-521) on files of           *)
(* MaxVerifyRows rows: the regex pass, the numeric outlier pre-scan, the    *)
(* verification workflow, and the merge of its findings with the outliers. *)
(***************************************************************************)
MaxVerifyRows == 3

VerifyRules == <<WfRules[1], WfRules[3], WfRules[4]>>

\* float(raw.replace(",", "")) of the cells of a column (lines 313-321)
ColumnCells(rows, col) == [i \in 1..Len(rows) |-> ParseFloat(RowGet(rows[i], col))]

\* lines 303-307: the first header that names the account
AccountCol(hdrs) ==
    LET named == SelectSeq(hdrs, LAMBDA h :
                     Lower(h) \in {"account_name", "account", "name", "description"})
    IN  IF named = <<>> THEN "" ELSE Head(named)

\* lines 340 and 370: rows[row_idx].get(account_col, "") if account_col else ""
OutlierAccount(rows, hdrs, o) ==
    IF AccountCol(hdrs) = "" THEN ""
    ELSE RowGet(rows[o.row_index + 1], AccountCol(hdrs))

\* _detect_numeric_outliers (lines 284-389): the loop over the columns
RECURSIVE OutliersOfColumns(_, _, _)
OutliersOfColumns(cols, rows, hdrs) ==
    IF cols = <<>> THEN <<>>
    ELSE LET found == detect_numeric_outliers(Head(cols), ColumnCells(rows, Head(cols)))
         IN  [k \in 1..Len(found) |->
                 [found[k] EXCEPT !.account = OutlierAccount(rows, hdrs, found[k])]]
                 \o OutliersOfColumns(Tail(cols), rows, hdrs)

\* lines 453-469: the GroundedFinding of an outlier, dumped to a dict;
\* matched_value keeps the value instead of its text
NumericBypass(found) ==
    [k \in 1..Len(found) |->
        [finding_type  |-> Get(found[k], "finding_type", "custom"),
         severity      |-> Get(found[k], "severity", "critical"),
         account       |-> Get(found[k], "account", ""),
         row_index     |-> Get(found[k], "row_index", -1),
         field         |-> Get(found[k], "field", ""),
         matched_value |-> Get(found[k], "value", ""),
         confidence    |-> Get(found[k], "confidence", 9500),
         rule_id       |-> "numeric_outlier"]]

\* (f.get("row_index"), f.get("field")); None is a value no row or column has
RowFieldKey(f) == <<Get(f, "row_index", -2), Get(f, "field", "None")>>

\* MergeWithBypass that drops a workflow finding on a row of an outlier
MergeWithBypassByRow(numeric_bypass, ai_findings) ==
    LET bypass_rows == {RowFieldKey(nb)[1] : nb \in Range(numeric_bypass)}
    IN  numeric_bypass
            \o SelectSeq(ai_findings, LAMBDA f : RowFieldKey(f)[1] \notin bypass_rows)

\* lines 498-505
MergeWithBypass(numeric_bypass, ai_findings) ==
    LET bypass_keys == {RowFieldKey(nb) : nb \in Range(numeric_bypass)}
    IN  numeric_bypass
            \o SelectSeq(ai_findings, LAMBDA f : RowFieldKey(f) \notin bypass_keys)

\* detect_and_verify up to the call of run_verification_graph (lines 417-483)
InitVerify ==
    /\ pc = "verify"
    /\ rules = VerifyRules
    /\ headers = <<"name", "fx_rate">>
    /\ min_confidence = 0
    /\ compiled = compile_rules(rules, headers, min_confidence)
    /\ total_rows = MaxVerifyRows
    /\ \E rows \in [1..MaxVerifyRows -> Rows(headers)] :
          /\ raw_findings = RegexPass(compiled, rows, headers, 1, <<>>)
          /\ outliers = OutliersOfColumns(headers, rows, headers)
          /\ wf = [csv_sample_rows |-> rows]
    /\ raw_count = Len(raw_findings)
    /\ early_exit = FALSE /\ row_idx = 0 /\ rows_scanned = 0 /\ sprt = NoSPRT
    /\ monitor_seen = <<>> /\ result = <<>>
    /\ num_col = "" /\ num_cells = <<>>
    /\ FbIdle /\ RestIdle
    /\ wf_node = "start"
    /\ llm_available \in BOOLEAN
    /\ langgraph_available \in BOOLEAN
    /\ wf_trace = <<>>
    /\ wf_raised = <<>>

\* Step 5 (lines 498-505) on what run_verification_graph returned
MergeFindings ==
    /\ wf_node = "done"
    /\ merged_findings' = MergeWithBypass(NumericBypass(outliers),
                                          Get(wf, "final_findings", <<>>))
    /\ wf_node' = "returned"
    /\ UNCHANGED <<scanVars, fbVars, numVars, wrVars, batchVars, adjVars, callVars, wf, llm_available,
                   langgraph_available, wf_trace, wf_raised>>

NextVerify == NextWorkflow \/ MergeFindings

SpecVerify == InitVerify /\ [][NextVerify]_vars

\* f is entry number k of the final list of the workflow and is in the merged
\* list as often as in the final list
KeptFromWorkflow(f) ==
    Cardinality({k \in 1..Len(merged_findings) : merged_findings[k] = f})
        = Cardinality({k \in 1..Len(wf.final_findings) : wf.final_findings[k] = f})

\* C16: the list detect_and_verify returns starts with every numeric outlier,
\* whatever the workflow did, and after them holds the findings of the
\* workflow except exactly those that share (row_index, field) with an outlier.
C16_OutliersBypassWorkflow ==
    wf_node = "returned" =>
        LET bypass == NumericBypass(outliers)
            keys   == {RowFieldKey(nb) : nb \in Range(bypass)}
        IN  /\ Len(merged_findings) >= Len(bypass)
            /\ SubSeq(merged_findings, 1, Len(bypass)) = bypass
            /\ \A f \in Range(wf.final_findings) :
                  IF RowFieldKey(f) \in keys
                  THEN f \notin Range(SubSeq(merged_findings, Len(bypass) + 1,
                                             Len(merged_findings)))
                  ELSE KeptFromWorkflow(f)
            /\ \A k \in (Len(bypass) + 1)..Len(merged_findings) :
                  merged_findings[k] \in Range(wf.final_findings)

\* An outlier, a workflow finding on its cell that is dropped and a workflow
\* finding on another cell of the same row that stays
C16_Witness ==
    /\ wf_node = "returned"
    /\ outliers # <<>>
    /\ \E f, g \in Range(wf.final_findings) :
          /\ RowFieldKey(f) \in {RowFieldKey(nb) : nb \in Range(NumericBypass(outliers))}
          /\ g.row_index = f.row_index /\ g.field # f.field
          /\ g \in Range(merged_findings)


(***************************************************************************)
(* SpecHeuristic: run_verification_graph without LangGraph, that is        *)
(* _run_heuristic_pipeline (_graph.py 205-278), on the candidates of files *)
(* with a description column.                                              *)
(***************************************************************************)
HeuristicRules ==
    <<[rule_id |-> "H1", pattern |-> PatCash, field_targets |-> <<"description">>,
       finding_type |-> "custom", severity |-> "medium", confidence |-> 6000],
      [rule_id |-> "H2", pattern |-> PatNegative, field_targets |-> <<"amount", "fx_rate">>,
       finding_type |-> "sign_reversal", severity |-> "high", confidence |-> 9000]>>

\* A rule that matches every digit of the monetary columns
HeuristicDigitRule ==
    [rule_id |-> "H3", pattern |-> PatDigit, field_targets |-> <<"amount", "fx_rate">>,
     finding_type |-> "balance_mismatch", severity |-> "medium", confidence |-> 7000]

\* The rule lists of the runs: the order of the rules is the order of the
\* candidates of a row
HeuristicRuleLists ==
    {HeuristicRules,
     <<HeuristicRules[1], HeuristicDigitRule, HeuristicRules[2]>>,
     <<HeuristicDigitRule, HeuristicRules[2], HeuristicRules[1]>>,
     <<HeuristicRules[2], HeuristicDigitRule>>}

HeuristicHeaderChoices == {<<"description", "amount">>, <<"Description", "fx_rate">>}

InitHeuristic ==
    /\ pc = "workflow"
    /\ rules \in HeuristicRuleLists
    /\ headers \in HeuristicHeaderChoices
    /\ min_confidence = 0
    /\ compiled = compile_rules(rules, headers, min_confidence)
    /\ \E n \in 1..MaxWfRows : \E rows \in [1..n -> Rows(headers)] :
          /\ total_rows = n
          /\ raw_findings = RegexPass(compiled, rows, headers, 1, <<>>)
          /\ wf = [csv_sample_rows |-> rows]
    /\ raw_count = Len(raw_findings)
    /\ early_exit = FALSE /\ row_idx = 0 /\ rows_scanned = 0 /\ sprt = NoSPRT
    /\ monitor_seen = <<>> /\ result = <<>>
    /\ FbIdle /\ NumIdle /\ RestIdle
    /\ wf_node = "start"
    /\ llm_available \in BOOLEAN
    /\ langgraph_available = FALSE
    /\ wf_trace = <<>>
    /\ wf_raised = <<>>

NextHeuristic == RunHeuristicPipeline

SpecHeuristic == InitHeuristic /\ [][NextHeuristic]_vars

\* The only candidate is a custom finding on an account name or description
\* column
OneKeywordCandidate ==
    /\ Len(wf.candidate_findings) = 1
    /\ wf.candidate_findings[1].finding_type = "custom"
    /\ Lower(wf.candidate_findings[1].field) \in {"account_name", "description", "name"}

\* C17: the heuristic pipeline on a single generic keyword match (type custom,
\* short matched value, description column) dismisses it at triage, verifies
\* nothing, returns an empty final list, and both summaries are written and
\* report the one dismissal.
C17_KeywordMatchDismissed ==
    (wf_node = "done" /\ wf.pipeline = "heuristic" /\ OneKeywordCandidate) =>
        /\ Len(wf.triage_verdicts) = 1
        /\ wf.triage_verdicts[1].triage_decision = "dismiss"
        /\ wf.dismissed_count = 1
        /\ wf.verified_findings = <<>>
        /\ wf.final_findings = <<>>
        /\ wf.triage_summary = "Heuristic triage: 1/1 dismissed, 0 kept/escalated"
        /\ wf.reconciliation_summary =
               "Processed 1 candidates: 1 dismissed by triage, 0 verified findings. "

\* The pipeline has run on a single keyword match on the description column
C17_Witness ==
    /\ wf_node = "done" /\ wf.pipeline = "heuristic" /\ OneKeywordCandidate
    /\ wf.candidate_findings[1].field = "Description"
    /\ wf.candidate_findings[1].severity = "medium"
    /\ wf.candidate_findings[1].matched_value = "cash"


(***************************************************************************)
(* SpecAdjust: the body of the loop of apply_feedback_filter               *)
(* (_feedback.py 141-168) on one finding with feedback history, with the   *)
(* confidence in units of 1e-5, so that round(., 4) is followed.  The      *)
(* confidences of the model do not end in the digit 5, where the float     *)
(* value may round either way.                                             *)
(***************************************************************************)
MaxTally == 5

FineConfidences == {0, 4999, 5000, 12344, 50000, 70003, 87654, 94996, 95001, 99999, 100000}

\* round(x, 4) on a value in units of 1e-5
Round4(x) == ((x + 5) \div 10) * 10

\* max(_MIN_CONFIDENCE, min(_MAX_CONFIDENCE, x)) in units of 1e-5
Clamp(x) == Max2(10 * MIN_CONFIDENCE, Min2(10 * MAX_CONFIDENCE, x))

\* net * _CONFIRM_BOOST if net >= 0 else net * _DISMISS_PENALTY, in units of 1e-5
Adjustment(net) == IF net >= 0 THEN net * 10 * CONFIRM_BOOST ELSE net * 10 * DISMISS_PENALTY

\* AdjustedConfidenceFine with the boost used for a negative net as well
AdjustedConfidenceOneFactor(confidence, tally) ==
    Round4(Clamp(confidence + (tally.confirmed - tally.dismissed) * 10 * CONFIRM_BOOST))

\* lines 159-166 in units of 1e-5
AdjustedConfidenceFine(confidence, tally) ==
    Round4(Clamp(confidence + Adjustment(tally.confirmed - tally.dismissed)))

InitAdjust ==
    /\ pc = "adjust"
    /\ ScanIdle /\ FbIdle /\ NumIdle /\ WfIdle /\ WrIdle /\ BatchIdle /\ DvIdle
    /\ CallIdle
    /\ \E c \in FineConfidences : \E confirmed, dismissed \in 0..MaxTally :
          /\ confirmed + dismissed >= 1
          /\ adj = [at |-> "finding", confidence |-> c,
                    tally |-> [confirmed |-> confirmed, dismissed |-> dismissed]]

\* lines 141-168: the finding is dropped, or kept with its new confidence
AdjustFinding ==
    /\ adj.at = "finding"
    /\ adj' = IF IsSuppressed(adj.tally)
              THEN [adj EXCEPT !.at = "suppressed"]
              ELSE [at |-> "kept", confidence |-> adj.confidence, tally |-> adj.tally,
                    new_confidence |-> AdjustedConfidenceFine(adj.confidence, adj.tally)]
    /\ UNCHANGED <<scanVars, fbVars, numVars, wfVars, wrVars, batchVars, dvVars, callVars>>

NextAdjust == AdjustFinding

SpecAdjust == InitAdjust /\ [][NextAdjust]_vars

\* confirmed - dismissed of the finding's pair
AdjNet == adj.tally.confirmed - adj.tally.dismissed

\* C18 as claimed: the new confidence is clamp(c + 0.05 net, 0.05, 1.0) for
\* net >= 0 and clamp(c - 0.08 |net|, 0.05, 1.0) for net < 0.
C18_Original ==
    adj.at = "kept" =>
        adj.new_confidence =
            IF AdjNet >= 0
            THEN Max2(5000, Min2(100000, adj.confidence + 5000 * AdjNet))
            ELSE Max2(5000, Min2(100000, adj.confidence - 8000 * (-AdjNet)))

\* C18 (amended): the new confidence is that clamped value rounded to four
\* decimals: a multiple of 1e-4 within half of 1e-4 of it; on a confidence
\* written with four decimals it is the clamped value itself.
C18_ClampedThenRounded ==
    adj.at = "kept" =>
        LET clamped == IF AdjNet >= 0
                       THEN Max2(5000, Min2(100000, adj.confidence + 5000 * AdjNet))
                       ELSE Max2(5000, Min2(100000, adj.confidence - 8000 * (-AdjNet)))
        IN  /\ adj.new_confidence % 10 = 0
            /\ 2 * (adj.new_confidence - clamped) <= 10
            /\ 2 * (clamped - adj.new_confidence) <= 10
            /\ adj.confidence % 10 = 0 =>
                   /\ adj.new_confidence = clamped
                   /\ adj.new_confidence =
                          10 * AdjustedConfidence(adj.confidence \div 10, adj.tally)

\* A confidence of 0.87654 with one confirmation more than dismissals: the
\* clamped value 0.92654 is stored as 0.9265
C18_Witness ==
    /\ adj.at = "kept" /\ adj.confidence = 87654
    /\ AdjNet = 1
    /\ adj.new_confidence = 92650


(***************************************************************************)
(* SpecEdge: the conditional edge after the reconcile node                 *)
(* (_graph.py 57-67 and 97-105) on workflow states with any of the control *)
(* keys present or absent.                                                 *)
(***************************************************************************)
MaxRound == 3

\* The dict holding key k with value v, or nothing
Slot(present, k, v) == IF present THEN (k :> v) ELSE EmptyDict

InitEdge ==
    /\ pc = "edge"
    /\ ScanIdle /\ FbIdle /\ NumIdle /\ RestIdle
    /\ llm_available = FALSE /\ langgraph_available = TRUE
    /\ wf_trace = <<"triage", "verify", "reconcile">>
    /\ wf_raised = <<FALSE, FALSE, FALSE>>
    /\ wf_node = "reconcile_returned"
    /\ \E has_converged, converged, has_round, has_max \in BOOLEAN :
       \E error \in {"absent", "", "fatal"} :
       \E round_number, max_rounds \in 1..MaxRound :
          wf = Slot(has_converged, "converged", converged)
                  @@ Slot(error # "absent", "error", error)
                  @@ Slot(has_round, "round_number", round_number)
                  @@ Slot(has_max, "max_rounds", max_rounds)

\* add_conditional_edges("reconcile", _should_continue,
\*                       {"continue": "triage", "end": END})
ConditionalEdge ==
    /\ wf_node = "reconcile_returned"
    /\ wf_node' = IF should_continue(wf) = "continue" THEN "triage" ELSE "done"
    /\ UNCHANGED <<scanVars, fbVars, numVars, restVars, wf, llm_available,
                   langgraph_available, wf_trace, wf_raised>>

NextEdge == ConditionalEdge

SpecEdge == InitEdge /\ [][NextEdge]_vars

\* converged is false, the error slot is empty and round_number is below
\* max_rounds, an absent key counting as False, "", 1 and 2
AnotherRoundAllowed ==
    /\ ("converged" \in DOMAIN wf => ~wf.converged)
    /\ ("error" \in DOMAIN wf => wf.error = "")
    /\ (IF "round_number" \in DOMAIN wf THEN wf.round_number ELSE 1)
           < (IF "max_rounds" \in DOMAIN wf THEN wf.max_rounds ELSE 2)

\* C20: after Reconcile the workflow goes to Triage exactly when converged is
\* false, the error slot is empty and round_number is below max_rounds
\* (2 when not given), and to the terminal state otherwise.
C20_LoopBackOnlyWhenAllowed ==
    /\ wf_node = "triage" => AnotherRoundAllowed
    /\ wf_node = "done" => ~AnotherRoundAllowed

\* Back to Triage on the default max_rounds: round 1 of 2, not converged
C20_Witness ==
    /\ pc = "edge" /\ wf_node = "triage"
    /\ "max_rounds" \notin DOMAIN wf
    /\ "converged" \in DOMAIN wf /\ "error" \in DOMAIN wf

(***************************************************************************)
(* Verify with no survivor of triage (SpecWorkflow)                        *)
(***************************************************************************)
\* Verify has run in this round and no verdict it was given is keep or
\* escalate
VerifiedNoSurvivor ==
    /\ Len(wf_trace) >= 2 /\ wf_trace[2] = "verify"
    /\ Survivors(wf.triage_verdicts) = <<>>

\* The Verify stage got its lists from the reasoning backend: the graph ran,
\* a client existed and the call did not raise (_verify_with_llm, 300-334)
BackendVerified ==
    /\ langgraph_available /\ llm_available
    /\ Len(wf_raised) >= 2 /\ ~wf_raised[2]

\* The cells of the rate columns of the sample rows that the range check of
\* lines 371-392 calls unusual and finds in no currency band
OutOfBandCells(rows, hdrs) ==
    {<<i - 1, h>> : <<i, h>> \in
        {<<i, h>> \in (DOMAIN rows) \X Range(hdrs) :
            /\ IsRateField(h)
            /\ ParseFloat(RowGet(rows[i], h)).num
            /\ UnusualRate(ParseFloat(RowGet(rows[i], h)).val)
            /\ BreakAt(ParseFloat(RowGet(rows[i], h)).val) = 0}}

\* The numeric checks of the stage cover the cell
CheckedCell(cell) ==
    \E k \in 1..Len(wf.numeric_checks) :
        /\ Get(wf.numeric_checks[k], "row_index", -1) = cell[1]
        /\ Get(wf.numeric_checks[k], "field", "") = cell[2]

\* C21: when no candidate survives triage, Verify still runs and attempts
\* numeric discovery on the sample rows, on the AI-backed path (the backend
\* is given the rows and answers) and on the fallback path (the range check
\* reaches every out-of-band rate of the sample rows).
C21_VerifyDiscoversWithoutSurvivors ==
    /\ (wf_node \in {"reconcile", "done"}) =>
           (Len(wf_trace) >= 2 /\ wf_trace[2] = "verify")
    /\ VerifiedNoSurvivor =>
           \/ BackendVerified
           \/ \A cell \in OutOfBandCells(wf.csv_sample_rows, wf.csv_headers) :
                  CheckedCell(cell)

(***************************************************************************)
(* SpecCheckRow: one call of _check_row (_grounded.py 589-634) on a row of *)
(* a file, with the compiled rules of a rule list.                         *)
(***************************************************************************)
CheckRowHeaderChoices == {<<"amount", "memo">>, <<"Account", "Amount">>}

InitCheckRow ==
    /\ pc = "check_row"
    /\ rules \in RuleLists
    /\ headers \in CheckRowHeaderChoices
    /\ min_confidence = 0
    /\ compiled = compile_rules(rules, headers, min_confidence)
    /\ early_exit = FALSE /\ total_rows = 1 /\ row_idx = 0
    /\ raw_findings = <<>> /\ raw_count = 0 /\ rows_scanned = 0 /\ sprt = NoSPRT
    /\ monitor_seen = <<>> /\ result = <<>>
    /\ FbIdle /\ NumIdle /\ WfIdle /\ WrIdle /\ BatchIdle /\ DvIdle /\ AdjIdle
    /\ \E row \in Rows(headers) : call = [fn |-> "check_row", row |-> row]

\* row_findings = _check_row(row_idx, row, headers, compiled_rules)
CheckRow ==
    /\ call.fn = "check_row"
    /\ call' = [fn |-> "returned", row |-> call.row,
                findings |-> check_row(row_idx, call.row, headers, compiled)]
    /\ UNCHANGED <<scanVars, fbVars, numVars, wfVars, wrVars, batchVars, dvVars, adjVars>>

NextCheckRow == CheckRow

SpecCheckRow == InitCheckRow /\ [][NextCheckRow]_vars

\* The value of the field is non-empty and the pattern of the rule is found
\* in it
FieldMatches(c, row, field) ==
    RowGet(row, field) # "" /\ Matches(c.regex, RowGet(row, field))

\* The findings of the call that carry the rule id of the compiled rule
FindingsOfRule(c) ==
    SelectSeq(call.findings, LAMBDA f : f.rule_id = c.rule.rule_id)

\* C22: for every row and every compiled rule the scanner yields at most one
\* finding, the one for the first of the rule's resolved fields, in field
\* order, whose non-empty value matches; no later field of the rule is
\* reported on that row.
C22_OneFindingPerRulePerRow ==
    call.fn = "returned" =>
        \A j \in 1..Len(compiled) :
            LET c    == compiled[j]
                hits == FindingsOfRule(c)
            IN  /\ Len(hits) <= 1
                /\ (Len(hits) = 1) <=>
                       (\E i \in 1..Len(c.fields) : FieldMatches(c, call.row, c.fields[i]))
                /\ \A k \in 1..Len(hits) :
                       \E i \in 1..Len(c.fields) :
                           /\ hits[k].field = c.fields[i]
                           /\ hits[k].row_index = row_idx
                           /\ FieldMatches(c, call.row, c.fields[i])
                           /\ \A b \in 1..(i - 1) :
                                  ~FieldMatches(c, call.row, c.fields[b])

\* A rule with two resolved fields met a row in which both match, and two
\* rules fired on that row
C22_Witness ==
    /\ call.fn = "returned"
    /\ Len(call.findings) >= 2
    /\ \E j \in 1..Len(compiled) :
          /\ Len(compiled[j].fields) >= 2
          /\ \A i \in 1..2 : FieldMatches(compiled[j], call.row, compiled[j].fields[i])
          /\ Len(FindingsOfRule(compiled[j])) = 1

(***************************************************************************)
(* The findings cap of the scan (SpecScan)                                 *)
(***************************************************************************)
\* C23: the number of raw findings collected by one scan never exceeds the
\* per-scan cap of 500, however many rules match on the same row, and once
\* the cap is reached no further row is scanned.
C23_RawFindingsWithinCap ==
    /\ raw_count <= MAX_FINDINGS_PER_FILE
    /\ (pc = "scan" /\ raw_count >= MAX_FINDINGS_PER_FILE) => ~ENABLED ScanRowCounting

(***************************************************************************)
(* Magnitude outliers of the numeric outlier scan (SpecNumeric)            *)
(***************************************************************************)
\* C24: an outlier reported for a ratio above 10x the median whose
\* |value| x median is not within 5% of 1.0 is a generic magnitude outlier
\* (balance_mismatch, confidence 0.85), not a sign_reversal.
C24_FarFromOneIsMagnitudeOutlier ==
    pc = "numeric_done" =>
        \A i \in 1..Len(outliers), m \in {Abs(c.val) : c \in Range(num_cells)} :
            LET o == outliers[i]
            IN  (/\ IsMedianOf(m, num_cells)
                 /\ Abs(o.value) > 10 * m
                 /\ ~NearOne(Abs(o.value) * m))
                => (o.finding_type = "balance_mismatch" /\ o.confidence = 8500)

(***************************************************************************)
(* Duplicate hits on a row in the heuristic triage (SpecHeuristic)         *)
(***************************************************************************)
\* The positions of the verdicts on a row
VerdictsOnRow(r) ==
    {i \in 1..Len(wf.triage_verdicts) : Get(wf.triage_verdicts[i], "row_index", -1) = r}

\* The verdict is removed by one of the dismiss rules that do not look at
\* the row: info severity off the monetary columns, or a generic keyword
\* match on a descriptive column
OtherwiseDismissed(v) ==
    \/ /\ Get(v, "severity", "medium") = "info"
       /\ Lower(Get(v, "field", "")) \notin MonetaryCols(wf.csv_headers)
    \/ /\ Get(v, "finding_type", "custom") = "custom"
       /\ Lower(Get(v, "field", "")) \in {"account_name", "description", "name"}

\* C25: after heuristic triage, among the candidates of one row that come
\* from pairwise different rules at most one is not dismissed: the first in
\* candidate order that no other dismiss rule removed; every later hit on
\* the row is dismissed, also a high or critical one on a monetary field.
C25_FirstHitOnRowSurvives ==
    (wf_node = "done" /\ wf.pipeline = "heuristic") =>
        \A r \in {Get(v, "row_index", -1) : v \in Range(wf.triage_verdicts)} :
            LET on   == VerdictsOnRow(r)
                kept == {i \in on : wf.triage_verdicts[i].triage_decision # "dismiss"}
                free == {i \in on : ~OtherwiseDismissed(wf.triage_verdicts[i])}
            IN  (\A i, j \in on :
                    i # j => Get(wf.triage_verdicts[i], "rule_id", "")
                                # Get(wf.triage_verdicts[j], "rule_id", ""))
                => /\ Cardinality(kept) <= 1
                   /\ kept = {i \in free : \A j \in free : i <= j}

\* A medium hit on a monetary field came first on a row and was kept; the
\* high-severity hit of another rule on the same field came second and was
\* dismissed
C25_Witness ==
    /\ wf_node = "done" /\ wf.pipeline = "heuristic"
    /\ \E i, j \in 1..Len(wf.triage_verdicts) :
          /\ i < j
          /\ wf.triage_verdicts[i].row_index = wf.triage_verdicts[j].row_index
          /\ wf.triage_verdicts[i].rule_id # wf.triage_verdicts[j].rule_id
          /\ wf.triage_verdicts[i].triage_decision = "keep"
          /\ wf.triage_verdicts[j].severity = "high"
          /\ Lower(wf.triage_verdicts[j].field) \in MonetaryCols(wf.csv_headers)
          /\ wf.triage_verdicts[j].triage_decision = "dismiss"

(***************************************************************************)
(* Monitors and the feedback filter (SpecDetect)                           *)
(***************************************************************************)
\* The position of the loaded rule with the id
RuleIndex(rule_id) == CHOOSE i \in 1..Len(rules) : rules[i].rule_id = rule_id

\* A finding of the list has the row, rule and field of f
SameHit(f, g) ==
    f.row_index = g.row_index /\ f.rule_id = g.rule_id /\ f.field = g.field

\* C26: the monitors are evaluated on the raw candidate findings before the
\* feedback filter removes or re-scores any of them: until they have run no
\* result exists, they are given every raw finding of the scan, also one the
\* filter suppresses afterwards, and each with the confidence of its rule.
C26_MonitorsSeeRawFindings ==
    /\ pc \in {"scan", "monitor"} => result = <<>>
    /\ pc \in {"filter", "done"} =>
          /\ Len(monitor_seen) = raw_count
          /\ \A i \in 1..Len(monitor_seen) :
                 /\ SameHit(monitor_seen[i], raw_findings[i])
                 /\ monitor_seen[i].confidence
                        = rules[RuleIndex(monitor_seen[i].rule_id)].confidence
          /\ \A j \in 1..Len(result) :
                 \E i \in 1..Len(monitor_seen) : SameHit(monitor_seen[i], result[j])

\* The run is over; the filter suppressed a finding the monitors had seen and
\* changed the confidence of another one
C26_Witness ==
    /\ pc = "done"
    /\ \E i \in 1..Len(monitor_seen) :
          \A j \in 1..Len(result) : ~SameHit(monitor_seen[i], result[j])
    /\ \E i \in 1..Len(monitor_seen), j \in 1..Len(result) :
          /\ SameHit(monitor_seen[i], result[j])
          /\ monitor_seen[i].confidence # result[j].confidence

(***************************************************************************)
(* SpecLongScan: the scan loop of detect_grounded with early exit on a     *)
(* file long enough for the ratio to fall from above A to below B.         *)
(***************************************************************************)
LongFileRows == 840

InitLongScan ==
    /\ pc = "start"
    /\ headers = <<"amount">>
    /\ rules = <<ScanRule(1)>>
    /\ min_confidence = 0
    /\ early_exit = TRUE
    /\ total_rows = LongFileRows
    /\ compiled = <<>> /\ row_idx = 0 /\ raw_findings = <<>> /\ raw_count = 0
    /\ rows_scanned = 0 /\ sprt = NoSPRT /\ monitor_seen = <<>> /\ result = <<>>
    /\ FbIdle /\ NumIdle /\ WfIdle /\ RestIdle

SpecLongScan == InitLongScan /\ [][NextScan]_vars

\* The SPRT has decided
Decided == sprt.decision \in {"clean", "anomalous"}

\* C27: the SPRT decision changes at most once per scan and is never
\* revised: once taken it stays, so after it became anomalous it never
\* becomes clean and the scan is not stopped early, however far the ratio
\* falls over the finding-free rows that follow.
C27_DecisionNeverRevised ==
    /\ [][Decided => sprt'.decision = sprt.decision]_vars
    /\ [](sprt.decision = "anomalous" =>
             /\ rows_scanned = row_idx
             /\ pc # "scan" =>
                    (rows_scanned = total_rows \/ raw_count >= MAX_FINDINGS_PER_FILE))

\* The file was flagged anomalous, the ratio has since fallen to the clean
\* threshold, and the scan is still on
C27_Witness ==
    /\ pc = "scan" /\ row_idx < total_rows
    /\ sprt.decision = "anomalous"
    /\ sprt.llr <= SPRT_B

(***************************************************************************)
(* Rounds of the verification workflow (SpecWorkflowFair)                  *)
(***************************************************************************)
\* The run is over and each stage ran once, in order, in round 1
RanOnce ==
    /\ wf_trace = <<"triage", "verify", "reconcile">>
    /\ wf.converged
    /\ wf.round_number = 1

\* A step from Reconcile leaves converged true and ends the graph
ReconcileEndsGraph ==
    wf_node = "reconcile" => (wf_node' = "done" /\ wf'.converged)

\* A step of a stage leaves round_number as it was
StageKeepsRound ==
    wf_node \in {"triage", "verify", "reconcile"} => wf'.round_number = wf.round_number

C29_SecondPassKeepsConfidence ==
    fb_op = "refilter" =>
        /\ Len(fb_out2) = Len(fb_out)
        /\ \A i \in 1..Len(fb_out2) : fb_out2[i].confidence = fb_out[i].confidence

\* The lines of the ledger that name a rule
NamedRecords(lines) == SelectSeq(lines, LAMBDA l : l.rule_id # "")

====
